---- MODULE Spec2Model ----
(***************************************************************************)
(* A model of the calorie-tracking application's request path:             *)
(*   - the frontend ApiClient (src/src/services/apiClient.ts): auth        *)
(*     headers, error classification, retry with exponential backoff and   *)
(*     the unwrapping of the response envelope;                            *)
(*   - the Lambda food handler (src/unnamed/part_005): lazily connected    *)
(*     PostgreSQL client, routing, queries and the fallback catalog.       *)
(***************************************************************************)
EXTENDS Integers, Sequences, FiniteSets, TLC

VARIABLES
    \* ---- ApiClient (one executeWithRetry call at a time)
    pc,           \* "idle" | "attempt" | "delay" | "done"
    op,           \* the public method being executed
    retryCount,   \* executeWithRetry's retryCount parameter
    attemptLog,   \* per attempt made: the classified ApiError, or AttemptOk
    delays,       \* the delays waited so far, in ms, in order
    outcome,      \* what the call gave its caller: pending, returned, thrown
    lastSession,  \* what fetchAuthSession did on the latest attempt
    lastRequest,  \* the request the latest attempt handed to fetch
    lastBody,     \* the parsed body of the latest 2xx response
    lastThrown,   \* the value the latest failed attempt threw
    \* ---- Lambda food handler (one instance) and its store
    pgClient,     \* module-level cached client: "null" or "client"
    connAlive,    \* whether the cached client's connection still works
    storeUp,      \* whether the PostgreSQL server accepts connections
    connString,   \* whether SQL_CONNECTION_STRING is set in the environment
    rows,         \* the food_items table: a set of rows, id is the key
    request,      \* the event of the latest invocation
    response,     \* the result of the latest invocation
    connects,     \* connection attempts made by the latest invocation
    queries,      \* SQL statements the latest invocation sent
    seen,         \* the handle and the store as the latest invocation found them
    \* ---- POST /foods in several instances against the one store
    inst,         \* each instance: where its POST stands, its handle, its next_id
    issued,       \* the 201 responses given so far, in order
    \* ---- the search-only handler (one instance)
    dbClient,     \* module-level client: null, or a Client and whether it works
    searchRequest,\* the event of its latest invocation
    searchReply,  \* the result of its latest invocation
    dbConnects,   \* connection attempts made by its latest invocation
    searchSeen,   \* what its latest invocation found
    \* ---- createFood end to end
    rowsAtCall,   \* the table when the current createFood call began
    \* ---- useEnhancedAuth
    isRefreshing, \* the hook's isRefreshing state
    authError,    \* the code of the hook's authError, or "none"
    sessionInfo,  \* the hook's sessionInfo: isValid and isExpiringSoon
    tasks,        \* the calls of checkSession and refreshSession in flight
    authUser,     \* whether useAuthenticator has a user
    tokenState,   \* how near its expiry the access token is
    \* ---- AuthProvider
    auth,         \* the provider's state: user, isLoading, error, sessionExpired
    pending,      \* how many of its calls are awaiting Amplify, by kind
    effectDue     \* its effect has to run again

clientVars == <<pc, op, retryCount, attemptLog, delays, outcome,
                lastSession, lastRequest, lastBody, lastThrown>>
handlerVars == <<pgClient, connAlive, storeUp, connString, rows, request,
                 response, connects, queries, seen, inst, issued>>
searchVars == <<dbClient, searchRequest, searchReply, dbConnects, searchSeen>>
callVars == <<rowsAtCall>>
refreshVars == <<isRefreshing, authError, sessionInfo, tasks, authUser, tokenState>>
authVars == <<auth, pending, effectDue>>
sideVars == <<searchVars, callVars, refreshVars, authVars>>
vars == <<clientVars, handlerVars, sideVars>>

----------------------------------------------------------------------------
(* JavaScript values, as far as the client looks at them.                  *)

Undefined == [t |-> "undefined"]
Null == [t |-> "null"]
JStr(s) == [t |-> "string", s |-> s]
\* a string kept as its sequence of characters
JChars(s) == [t |-> "chars", s |-> s]
JNum(n) == [t |-> "number", n |-> n]
JArr(items) == [t |-> "array", items |-> items]
\* an object; only its data property is ever read (Undefined when absent)
JObj(data) == [t |-> "object", data |-> data]

\* ToBoolean, as used by && and ||
Truthy(v) ==
    CASE v.t = "undefined" -> FALSE
      [] v.t = "null" -> FALSE
      [] v.t = "string" -> v.s # ""
      [] v.t = "chars" -> v.s # <<>>
      [] v.t = "number" -> v.n # 0
      [] OTHER -> TRUE

IsArray(v) == v.t = "array"

\* result?.data
OptData(v) ==
    IF v.t = "object" THEN v.data ELSE Undefined

----------------------------------------------------------------------------
(* ApiClient: src/src/services/apiClient.ts                                *)

maxRetries == 3
retryDelay == 1000

Returns(v) == [kind |-> "returns", value |-> v]
Throws(e) == [kind |-> "throws", error |-> e]

Has(r, f) == f \in DOMAIN r

\* String.prototype.includes, on a message kept as its sequence of words
Includes(message, word) == \E i \in DOMAIN message : message[i] = word

\* ---- the values that fetchAuthSession, fetch and Response.json() produce

\* fetchAuthSession: rejects, or resolves to a session whose
\* tokens?.accessToken?.toString() is undefined, "" or a token
SessionOutcomes ==
    { [kind |-> "throws",
       error |-> [t |-> "object", name |-> "NotAuthorizedException",
                  message |-> <<"Refresh", "Token", "has", "expired">>]],
      [kind |-> "throws",
       error |-> [t |-> "object", name |-> "TypeError",
                  message |-> <<"Failed", "to", "fetch">>]],
      [kind |-> "session", token |-> Undefined],
      [kind |-> "session", token |-> JStr("")],
      [kind |-> "session", token |-> JStr("jwt-a")],
      [kind |-> "session", token |-> JStr("jwt-b")] }

\* fetch rejects with a TypeError whose message is the engine's:
\* Chromium "Failed to fetch", Firefox "NetworkError when attempting to
\* fetch resource.", WebKit "Load failed", Node "fetch failed"
FetchRejections ==
    { [t |-> "object", name |-> "TypeError", message |-> m] :
        m \in { <<"Failed", "to", "fetch">>,
                <<"NetworkError", "when", "attempting", "to", "fetch", "resource.">>,
                <<"Load", "failed">>,
                <<"fetch", "failed">> } }

\* Response.json() rejects with a SyntaxError on a body that is not JSON
JsonSyntaxError ==
    [t |-> "object", name |-> "SyntaxError",
     message |-> <<"Unexpected", "end", "of", "JSON", "input">>]

\* makeRequest, lines 196-198: new Error(`HTTP ${status}: ${statusText}`)
\* with the status attached
HttpError(status) ==
    [t |-> "object", name |-> "Error",
     message |-> <<"HTTP", "<status>:", "<statusText>">>, status |-> status]

\* ---- getAuthHeaders, lines 42-63
ContentTypeOnly == ("Content-Type" :> "application/json")

BearerHeaders(token) ==
    ("Authorization" :> [scheme |-> "Bearer", token |-> token.s])
        @@ ContentTypeOnly

\* getAuthHeaders without its try/catch: the session's error escapes
getAuthHeadersUncaught(session) ==
    IF session.kind = "throws" THEN Throws(session.error)
    ELSE IF Truthy(session.token) THEN Returns(BearerHeaders(session.token))
    ELSE Returns(ContentTypeOnly)

\* getAuthHeaders without the if (token) test
getAuthHeadersAlwaysBearer(session) ==
    IF session.kind = "throws" THEN Returns(ContentTypeOnly)
    ELSE Returns(("Authorization" :> [scheme |-> "Bearer", token |-> "undefined"])
                    @@ ContentTypeOnly)

getAuthHeaders(session) ==
    IF session.kind = "throws"
    THEN Returns(ContentTypeOnly)                       \* catch, lines 57-62
    ELSE IF Truthy(session.token)
         THEN Returns(BearerHeaders(session.token))     \* lines 47-52
         ELSE Returns(ContentTypeOnly)                  \* lines 54-56

\* ---- handleApiError, lines 65-147
NetworkError ==
    [code |-> "NETWORK_ERROR",
     message |-> "Network error. Please check your connection and try again.",
     retryable |-> TRUE]

\* the switch with a default branch that is never retryable
ClassifyStatusDefaultFinal(statusCode) ==
    CASE statusCode = 401 ->
           [code |-> "UNAUTHORIZED",
            message |-> "Authentication required. Please sign in again.",
            statusCode |-> statusCode, retryable |-> FALSE]
      [] statusCode = 403 ->
           [code |-> "FORBIDDEN",
            message |-> "You do not have permission to perform this action.",
            statusCode |-> statusCode, retryable |-> FALSE]
      [] statusCode = 429 ->
           [code |-> "RATE_LIMITED",
            message |-> "Too many requests. Please try again later.",
            statusCode |-> statusCode, retryable |-> TRUE]
      [] statusCode = 500 ->
           [code |-> "SERVER_ERROR",
            message |-> "Internal server error. Please try again later.",
            statusCode |-> statusCode, retryable |-> TRUE]
      [] statusCode = 503 ->
           [code |-> "SERVICE_UNAVAILABLE",
            message |-> "Service temporarily unavailable. Please try again later.",
            statusCode |-> statusCode, retryable |-> TRUE]
      [] OTHER ->
           [code |-> "HTTP_ERROR",
            message |-> "HTTP <statusCode>: Request failed",
            statusCode |-> statusCode, retryable |-> FALSE]

\* the switch with a default branch that is retryable from 400 on
ClassifyStatusRetryAll(statusCode) ==
    CASE statusCode = 401 ->
           [code |-> "UNAUTHORIZED",
            message |-> "Authentication required. Please sign in again.",
            statusCode |-> statusCode, retryable |-> FALSE]
      [] statusCode = 403 ->
           [code |-> "FORBIDDEN",
            message |-> "You do not have permission to perform this action.",
            statusCode |-> statusCode, retryable |-> FALSE]
      [] statusCode = 429 ->
           [code |-> "RATE_LIMITED",
            message |-> "Too many requests. Please try again later.",
            statusCode |-> statusCode, retryable |-> TRUE]
      [] statusCode = 500 ->
           [code |-> "SERVER_ERROR",
            message |-> "Internal server error. Please try again later.",
            statusCode |-> statusCode, retryable |-> TRUE]
      [] statusCode = 503 ->
           [code |-> "SERVICE_UNAVAILABLE",
            message |-> "Service temporarily unavailable. Please try again later.",
            statusCode |-> statusCode, retryable |-> TRUE]
      [] OTHER ->
           [code |-> "HTTP_ERROR",
            message |-> "HTTP <statusCode>: Request failed",
            statusCode |-> statusCode, retryable |-> statusCode >= 400]

\* the switch over err.status, lines 85-128
ClassifyStatus(statusCode) ==
    CASE statusCode = 401 ->
           [code |-> "UNAUTHORIZED",
            message |-> "Authentication required. Please sign in again.",
            statusCode |-> statusCode, retryable |-> FALSE]
      [] statusCode = 403 ->
           [code |-> "FORBIDDEN",
            message |-> "You do not have permission to perform this action.",
            statusCode |-> statusCode, retryable |-> FALSE]
      [] statusCode = 429 ->
           [code |-> "RATE_LIMITED",
            message |-> "Too many requests. Please try again later.",
            statusCode |-> statusCode, retryable |-> TRUE]
      [] statusCode = 500 ->
           [code |-> "SERVER_ERROR",
            message |-> "Internal server error. Please try again later.",
            statusCode |-> statusCode, retryable |-> TRUE]
      [] statusCode = 503 ->
           [code |-> "SERVICE_UNAVAILABLE",
            message |-> "Service temporarily unavailable. Please try again later.",
            statusCode |-> statusCode, retryable |-> TRUE]
      [] OTHER ->
           [code |-> "HTTP_ERROR",
            message |-> "HTTP <statusCode>: Request failed",
            statusCode |-> statusCode, retryable |-> statusCode >= 500]

handleApiError(error) ==
    IF error.t = "object"
    THEN IF error.name = "TypeError"
            /\ Has(error, "message") /\ Includes(error.message, "fetch")
         THEN NetworkError                                         \* lines 73-79
         ELSE IF Has(error, "status")
              THEN ClassifyStatus(error.status)                    \* lines 82-129
              ELSE IF error.name = "NotAuthorizedException"
                      \/ (Has(error, "code")
                          /\ error.code = "NotAuthorizedException")
                   THEN [code |-> "AUTH_ERROR",                    \* lines 132-138
                         message |-> "Authentication failed. Please sign in again.",
                         retryable |-> FALSE]
                   ELSE [code |-> "UNKNOWN_ERROR",                 \* lines 142-146
                         message |-> "<error.toString()>",
                         retryable |-> FALSE]
    ELSE [code |-> "UNKNOWN_ERROR",
          message |-> "<error.toString()>",
          retryable |-> FALSE]

\* ---- executeWithRetry, lines 149-168
\* the retry test with <= for <
ShouldRetryOneMore(apiError, count) ==
    apiError.retryable /\ count <= maxRetries

\* the retry test without the retryable flag
ShouldRetryAnyError(apiError, count) ==
    count < maxRetries

\* the retry test with the retryable flag read the wrong way round
ShouldRetryInverted(apiError, count) ==
    ~apiError.retryable /\ count < maxRetries

\* line 160
ShouldRetry(apiError, count) ==
    apiError.retryable /\ count < maxRetries

RECURSIVE Pow2(_)
Pow2(n) == IF n = 0 THEN 1 ELSE 2 * Pow2(n - 1)

\* line 162: retryDelay * Math.pow(2, retryCount)
Backoff(count) == retryDelay * Pow2(count)

\* ---- makeRequest, lines 170-204
ResponseOk(status) == status >= 200 /\ status <= 299

\* { ...headers, ...options.headers }: the later spread wins
Spread(first, second) == second @@ first

\* What fetch can do with a request: reject, or resolve to a response with
\* a status and a body that is JSON text (kept parsed) or is not
Responded(status, body) == [kind |-> "response", status |-> status, body |-> body]
Rejected(e) == [kind |-> "reject", error |-> e]
NotJson == [t |-> "notjson"]

\* the request handed to fetch, lines 181-187
RequestOf(endpoint, options, headers) ==
    [sent |-> TRUE, endpoint |-> endpoint, method |-> options.method,
     headers |-> Spread(headers, options.headers)]

NoRequest == [sent |-> FALSE]

\* the request sent (NoRequest when makeRequest throws before fetch)
makeRequestSends(endpoint, options, session) ==
    LET headers == getAuthHeaders(session)
    IN  IF headers.kind = "throws" THEN NoRequest
        ELSE RequestOf(endpoint, options, headers.value)

makeRequest(endpoint, options, session, transport) ==
    LET headers == getAuthHeaders(session)
    IN  IF headers.kind = "throws" THEN headers               \* line 174
        ELSE IF transport.kind = "reject"
             THEN Throws(transport.error)                      \* line 181
        ELSE IF ~ResponseOk(transport.status)
             THEN Throws(HttpError(transport.status))          \* lines 192-199
        ELSE IF transport.body = NotJson
             THEN Throws(JsonSyntaxError)                      \* line 201
        ELSE Returns(transport.body)                           \* line 203

\* ---- the public methods, lines 206-277
Ops == {"getFoods", "searchFood", "createFood", "updateFood", "deleteFood"}

NoHeaders == <<>>

OptionsOf(o) ==
    CASE o = "createFood" -> [method |-> "POST", headers |-> NoHeaders]
      [] o = "updateFood" -> [method |-> "PUT", headers |-> NoHeaders]
      [] o = "deleteFood" -> [method |-> "DELETE", headers |-> NoHeaders]
      [] OTHER -> [method |-> "GET", headers |-> NoHeaders]

EndpointOf(o) ==
    CASE o = "getFoods" -> "/foods"
      [] o = "searchFood" -> "/foods/search?name=<encodeURIComponent(name)>"
      [] o = "createFood" -> "/foods"
      [] OTHER -> "/foods/<id>"

\* getFoods, lines 215-222
UnwrapGetFoods(result) ==
    IF Truthy(OptData(result)) /\ IsArray(OptData(result))
    THEN OptData(result)
    ELSE IF IsArray(result) THEN result ELSE JArr(<<>>)

\* searchFood, line 235: (result?.data as Food[]) || []
UnwrapSearchFood(result) ==
    IF Truthy(OptData(result)) THEN OptData(result) ELSE JArr(<<>>)

\* createFood and updateFood, lines 249 and 263: result?.data || result
UnwrapRecord(result) ==
    IF Truthy(OptData(result)) THEN OptData(result) ELSE result

Unwrap(o, result) ==
    CASE o = "getFoods" -> UnwrapGetFoods(result)
      [] o = "searchFood" -> UnwrapSearchFood(result)
      [] o = "deleteFood" -> Undefined
      [] OTHER -> UnwrapRecord(result)

\* the closure each method hands to executeWithRetry
Operation(o, session, transport) ==
    LET r == makeRequest(EndpointOf(o), OptionsOf(o), session, transport)
    IN  IF r.kind = "throws" THEN r ELSE Returns(Unwrap(o, r.value))

----------------------------------------------------------------------------
(* The client as a state machine: one call of a public method at a time,   *)
(* one step per attempt (the operation and the catch block) and one per    *)
(* backoff delay.                                                          *)

\* statuses of the responses the server side gives (2xx and not)
OkStatuses == {200, 201}
ErrorStatuses == {401, 403, 404, 429, 500, 502, 503}

AppleItem == [id |-> 1, name |-> "Apple", calories |-> 95]

\* bodies of 2xx responses: the envelope, and shapes that are not it
Bodies ==
    { NotJson,
      Null,
      JArr(<<AppleItem>>),
      JObj(Undefined),
      JObj(Null),
      JObj(JArr(<<>>)),
      JObj(JArr(<<AppleItem>>)),
      JObj(JObj(Undefined)),
      JObj(JStr("unavailable")),
      JObj(JNum(0)) }

Transports ==
    { Rejected(e) : e \in FetchRejections }
        \cup { Responded(st, NotJson) : st \in ErrorStatuses }
        \cup { Responded(st, b) : st \in OkStatuses, b \in Bodies }

AttemptOk == [code |-> "OK"]
Pending == [kind |-> "pending"]
NoSession == [kind |-> "none"]
NoBody == [t |-> "none"]
NoThrown == [t |-> "none"]

ClientIdle ==
    /\ pc = "idle"
    /\ op = "none"
    /\ retryCount = 0
    /\ attemptLog = <<>>
    /\ delays = <<>>
    /\ outcome = Pending
    /\ lastSession = NoSession
    /\ lastRequest = NoRequest
    /\ lastBody = NoBody
    /\ lastThrown = NoThrown

\* a caller invokes a public method: executeWithRetry(operation, name, 0)
StartCall(o) ==
    /\ pc = "idle"
    /\ pc' = "attempt"
    /\ op' = o
    /\ UNCHANGED <<retryCount, attemptLog, delays, outcome, lastSession,
                   lastRequest, lastBody, lastThrown>>
    /\ UNCHANGED handlerVars
    /\ UNCHANGED sideVars

\* lines 154-166: await operation(), and the catch block up to the delay
AttemptSteps(session, transport) ==
    /\ pc = "attempt"
    /\ \E r \in {Operation(op, session, transport)} :
           /\ lastSession' = session
           /\ lastRequest' = makeRequestSends(EndpointOf(op), OptionsOf(op), session)
           /\ lastBody' = IF transport.kind = "response" /\ ResponseOk(transport.status)
                          THEN transport.body ELSE NoBody
           /\ IF r.kind = "returns"
              THEN /\ attemptLog' = Append(attemptLog, AttemptOk)
                   /\ lastThrown' = NoThrown
                   /\ outcome' = [kind |-> "returned", value |-> r.value]
                   /\ pc' = "done"
              ELSE \E apiError \in {handleApiError(r.error)} :
                   /\ attemptLog' = Append(attemptLog, apiError)
                   /\ lastThrown' = r.error
                   /\ IF ShouldRetry(apiError, retryCount)
                      THEN /\ pc' = "delay"
                           /\ outcome' = outcome
                      ELSE /\ pc' = "done"
                           /\ outcome' = [kind |-> "thrown", error |-> apiError]
    /\ UNCHANGED <<op, retryCount, delays>>

\* an attempt whose transport is any server
Attempt(session, transport) ==
    /\ AttemptSteps(session, transport)
    /\ UNCHANGED handlerVars
    /\ UNCHANGED sideVars

\* lines 162-163: the timer fires, then executeWithRetry(.., retryCount + 1)
Delay ==
    /\ pc = "delay"
    /\ delays' = Append(delays, Backoff(retryCount))
    /\ retryCount' = retryCount + 1
    /\ pc' = "attempt"
    /\ UNCHANGED <<op, attemptLog, outcome, lastSession, lastRequest,
                   lastBody, lastThrown>>
    /\ UNCHANGED handlerVars
    /\ UNCHANGED sideVars

\* the caller has its result; the singleton is ready for the next call
Finish ==
    /\ pc = "done"
    /\ pc' = "idle"
    /\ op' = "none"
    /\ retryCount' = 0
    /\ attemptLog' = <<>>
    /\ delays' = <<>>
    /\ outcome' = Pending
    /\ lastSession' = NoSession
    /\ lastRequest' = NoRequest
    /\ lastBody' = NoBody
    /\ lastThrown' = NoThrown
    /\ UNCHANGED handlerVars
    /\ UNCHANGED sideVars

----------------------------------------------------------------------------
(* The Lambda food handler: src/unnamed/part_005                           *)

\* Strings the handler inspects are kept as sequences of characters.
FOODS == <<"f", "o", "o", "d", "s">>
SEARCH == <<"s", "e", "a", "r", "c", "h">>

LowerChar(c) ==
    CASE c = "A" -> "a" [] c = "B" -> "b" [] c = "C" -> "c" [] c = "D" -> "d"
      [] c = "E" -> "e" [] c = "F" -> "f" [] c = "G" -> "g" [] c = "H" -> "h"
      [] c = "I" -> "i" [] c = "J" -> "j" [] c = "K" -> "k" [] c = "L" -> "l"
      [] c = "M" -> "m" [] c = "N" -> "n" [] c = "O" -> "o" [] c = "P" -> "p"
      [] c = "Q" -> "q" [] c = "R" -> "r" [] c = "S" -> "s" [] c = "T" -> "t"
      [] c = "U" -> "u" [] c = "V" -> "v" [] c = "W" -> "w" [] c = "X" -> "x"
      [] c = "Y" -> "y" [] c = "Z" -> "z"
      [] OTHER -> c

\* String.prototype.toLowerCase and SQL LOWER
ToLower(str) == [i \in DOMAIN str |-> LowerChar(str[i])]

\* String.prototype.includes
Contains(hay, needle) ==
    \E i \in 0..(Len(hay) - Len(needle)) :
        SubSeq(hay, i + 1, i + Len(needle)) = needle

StartsWith(str, prefix) ==
    Len(str) >= Len(prefix) /\ SubSeq(str, 1, Len(prefix)) = prefix

Digits == {"0", "1", "2", "3", "4", "5", "6", "7", "8", "9"}

DigitVal(c) ==
    CASE c = "0" -> 0 [] c = "1" -> 1 [] c = "2" -> 2 [] c = "3" -> 3
      [] c = "4" -> 4 [] c = "5" -> 5 [] c = "6" -> 6 [] c = "7" -> 7
      [] c = "8" -> 8 [] c = "9" -> 9

NaN == [t |-> "NaN"]

RECURSIVE ParseDigits(_, _, _)
ParseDigits(str, i, acc) ==
    IF i <= Len(str) /\ str[i] \in Digits
    THEN ParseDigits(str, i + 1, 10 * acc + DigitVal(str[i]))
    ELSE acc

\* parseInt(string): leading blanks and a sign are skipped, then the longest
\* run of digits is read; NaN when there is none
ParseInt(str) ==
    LET RECURSIVE SkipBlank(_)
        SkipBlank(i) == IF i <= Len(str) /\ str[i] = " " THEN SkipBlank(i + 1) ELSE i
        b == SkipBlank(1)
        signed == b <= Len(str) /\ str[b] \in {"+", "-"}
        d == IF signed THEN b + 1 ELSE b
    IN  IF d <= Len(str) /\ str[d] \in Digits
        THEN JNum(IF signed /\ str[b] = "-"
                  THEN 0 - ParseDigits(str, d, 0)
                  ELSE ParseDigits(str, d, 0))
        ELSE NaN

\* a === b on numbers: NaN equals nothing
StrictEqNum(a, b) == a.t = "number" /\ b.t = "number" /\ a.n = b.n

\* foodDatabase, lines 121-132
foodDatabase ==
    << [id |-> 1, calories |-> 95,   \* 'Apple'
        name |-> <<"A", "p", "p", "l", "e">>],
       [id |-> 2, calories |-> 105,   \* 'Banana'
        name |-> <<"B", "a", "n", "a", "n", "a">>],
       [id |-> 3, calories |-> 165,   \* 'Chicken Breast (100g)'
        name |-> <<"C", "h", "i", "c", "k", "e", "n", " ", "B", "r", "e", "a", "s", "t", " ", "(", "1", "0", "0", "g", ")">>],
       [id |-> 4, calories |-> 205,   \* 'Rice (1 cup cooked)'
        name |-> <<"R", "i", "c", "e", " ", "(", "1", " ", "c", "u", "p", " ", "c", "o", "o", "k", "e", "d", ")">>],
       [id |-> 5, calories |-> 34,   \* 'Broccoli (100g)'
        name |-> <<"B", "r", "o", "c", "c", "o", "l", "i", " ", "(", "1", "0", "0", "g", ")">>],
       [id |-> 6, calories |-> 208,   \* 'Salmon (100g)'
        name |-> <<"S", "a", "l", "m", "o", "n", " ", "(", "1", "0", "0", "g", ")">>],
       [id |-> 7, calories |-> 130,   \* 'Greek Yogurt (1 cup)'
        name |-> <<"G", "r", "e", "e", "k", " ", "Y", "o", "g", "u", "r", "t", " ", "(", "1", " ", "c", "u", "p", ")">>],
       [id |-> 8, calories |-> 164,   \* 'Almonds (28g)'
        name |-> <<"A", "l", "m", "o", "n", "d", "s", " ", "(", "2", "8", "g", ")">>],
       [id |-> 9, calories |-> 234,   \* 'Avocado (1 medium)'
        name |-> <<"A", "v", "o", "c", "a", "d", "o", " ", "(", "1", " ", "m", "e", "d", "i", "u", "m", ")">>],
       [id |-> 10, calories |-> 154,   \* 'Oatmeal (1 cup cooked)'
        name |-> <<"O", "a", "t", "m", "e", "a", "l", " ", "(", "1", " ", "c", "u", "p", " ", "c", "o", "o", "k", "e", "d", ")">>] >>

\* Math.max(...foodDatabase.map(f => f.id)), line 336
MaxOf(S) ==
    IF S = {} THEN 0
    ELSE LET x == CHOOSE y \in S : \A z \in S : z <= y IN x

\* Array.prototype.filter, keeping the order
RECURSIVE Filter(_, _)
Filter(seq, keep) ==
    IF seq = <<>> THEN <<>>
    ELSE LET rest == Filter(Tail(seq), keep)
         IN  IF Head(seq) \in keep THEN <<Head(seq)>> \o rest ELSE rest

\* Array.prototype.find: the first match, Undefined when there is none
RECURSIVE FindById(_, _)
FindById(seq, num) ==
    IF seq = <<>> THEN Undefined
    ELSE IF StrictEqNum(JNum(Head(seq).id), num)
         THEN [t |-> "object", item |-> Head(seq)]
         ELSE FindById(Tail(seq), num)

\* ---- the store: the food_items table behind the pg client

\* SQL LIKE: % is any run of characters, _ any one character, and a
\* backslash takes the next pattern character literally
RECURSIVE Like(_, _)
Like(str, pat) ==
    IF pat = <<>> THEN str = <<>>
    ELSE IF Head(pat) = "%"
         THEN Like(str, Tail(pat)) \/ (str # <<>> /\ Like(Tail(str), pat))
    ELSE IF Head(pat) = "\\" /\ Len(pat) >= 2
         THEN /\ str # <<>>
              /\ Head(str) = pat[2]
              /\ Like(Tail(str), SubSeq(pat, 3, Len(pat)))
    ELSE IF Head(pat) = "_"
         THEN str # <<>> /\ Like(Tail(str), Tail(pat))
    ELSE str # <<>> /\ Head(str) = Head(pat) /\ Like(Tail(str), Tail(pat))

\* ORDER BY id ASC over a set of rows
RECURSIVE OrderById(_)
OrderById(S) ==
    IF S = {} THEN <<>>
    ELSE LET first == CHOOSE r \in S : \A q \in S : r.id <= q.id
         IN  <<first>> \o OrderById(S \ {first})

\* rows as a query without ORDER BY may give them: here, newest first
RECURSIVE OrderAsStored(_)
OrderAsStored(S) ==
    IF S = {} THEN <<>>
    ELSE LET last == CHOOSE r \in S : \A q \in S : r.id <= q.id
         IN  OrderAsStored(S \ {last}) \o <<last>>

\* lines 59-63 and 109-113: parseInt(String(row.id)), String(row.name),
\* parseInt(String(row.calories)) over INTEGER and VARCHAR columns
RowToItem(row) ==
    [id |-> row.id, name |-> row.name, calories |-> row.calories]

MapRows(seq) == [i \in DOMAIN seq |-> RowToItem(seq[i])]

\* initializePostgreSQLClient whose catch block keeps the client it made
initializeKeepingFailedClient(pg, alive) ==
    IF pg = "null"
    THEN IF ~connString
         THEN [client |-> "null", pg |-> "null", alive |-> FALSE, connects |-> 0]
         ELSE IF storeUp
              THEN [client |-> "client", pg |-> "client", alive |-> TRUE,
                    connects |-> 1]
              ELSE [client |-> "null", pg |-> "client", alive |-> FALSE,
                    connects |-> 1]
    ELSE [client |-> pg, pg |-> pg, alive |-> alive, connects |-> 0]

\* initializePostgreSQLClient, lines 20-49, on the cached handle
initializePostgreSQLClient(pg, alive) ==
    IF pg = "null"
    THEN IF ~connString
         THEN [client |-> "null", pg |-> "null", alive |-> FALSE,      \* lines 25-28
               connects |-> 0]
         ELSE IF storeUp
              THEN [client |-> "client", pg |-> "client",               \* lines 31-41
                    alive |-> TRUE, connects |-> 1]
              ELSE [client |-> "null", pg |-> "null", alive |-> FALSE,  \* lines 42-46
                    connects |-> 1]
    ELSE [client |-> pg, pg |-> pg, alive |-> alive, connects |-> 0]    \* line 48

\* a query on the client succeeds while its connection is alive
QueryWorks(c) == c.client # "null" /\ c.alive

\* the handle a database function leaves, with the number of statements it
\* sent through client.query
Queried(c, n) ==
    [pg |-> c.pg, alive |-> c.alive, connects |-> c.connects, queries |-> n]

\* 'if (!client) return null' comes before the one statement
OneQuery(c) == Queried(c, IF c.client = "null" THEN 0 ELSE 1)

\* fetchFoodItemsFromDB with a query that has no ORDER BY
fetchUnordered(pg, alive) ==
    LET c == initializePostgreSQLClient(pg, alive)
    IN  [db |-> OneQuery(c), rows |-> rows,
         result |-> IF QueryWorks(c)
                    THEN JArr(MapRows(OrderAsStored(rows)))
                    ELSE Null]

\* fetchFoodItemsFromDB, lines 52-68
fetchFoodItemsFromDB(pg, alive) ==
    LET c == initializePostgreSQLClient(pg, alive)
    IN  [db |-> OneQuery(c), rows |-> rows,
         result |-> IF QueryWorks(c)
                    THEN JArr(MapRows(OrderById(rows)))
                    ELSE Null]

\* searchFoodItemsInDB, lines 98-118
searchFoodItemsInDB(pg, alive, searchTerm) ==
    LET c == initializePostgreSQLClient(pg, alive)
        pattern == ToLower(<<"%">> \o searchTerm \o <<"%">>)
        hits == {r \in rows : Like(ToLower(r.name), pattern)}
    IN  [db |-> OneQuery(c), rows |-> rows,
         result |-> IF QueryWorks(c)
                    THEN JArr(MapRows(OrderById(hits)))
                    ELSE Null]

\* createFoodItemInDB answering the new record without the INSERT
createWithoutInsert(pg, alive, name, calories) ==
    LET c == initializePostgreSQLClient(pg, alive)
        nextId == MaxOf({r.id : r \in rows}) + 1
        row == [id |-> nextId, name |-> name, calories |-> calories]
        db == Queried(c, IF c.client = "null" THEN 0 ELSE 1)
    IN  IF QueryWorks(c)
        THEN [db |-> db, rows |-> rows,
              result |-> [t |-> "object", item |-> RowToItem(row)]]
        ELSE [db |-> db, rows |-> rows, result |-> Null]

\* createFoodItemInDB, lines 71-95
createFoodItemInDB(pg, alive, name, calories) ==
    LET c == initializePostgreSQLClient(pg, alive)
        nextId == MaxOf({r.id : r \in rows}) + 1
        row == [id |-> nextId, name |-> name, calories |-> calories]
        \* the INSERT is sent once the SELECT has answered
        db == Queried(c, IF c.client = "null" THEN 0
                         ELSE IF c.alive THEN 2 ELSE 1)
    IN  IF QueryWorks(c) /\ \A r \in rows : r.id # nextId
        THEN [db |-> db, rows |-> rows \cup {row},
              result |-> [t |-> "object", item |-> RowToItem(row)]]
        ELSE [db |-> db, rows |-> rows, result |-> Null]

\* ---- the handler, lines 134-383

\* lines 142-147
CorsHeaders ==
    [AccessControlAllowOrigin |-> "*",
     AccessControlAllowHeaders |->
        "Content-Type,X-Amz-Date,Authorization,X-Api-Key,X-Amz-Security-Token,X-Requested-With",
     AccessControlAllowMethods |-> "GET,POST,PUT,DELETE,OPTIONS",
     ContentType |-> "application/json"]

\* a reply whose error responses carry the content type only
ReplyCorsOnSuccessOnly(status, body) ==
    [statusCode |-> status,
     headers |-> IF status < 400 THEN CorsHeaders
                 ELSE [ContentType |-> "application/json"],
     body |-> body]

Reply(status, body) == [statusCode |-> status, headers |-> CorsHeaders, body |-> body]

\* A path "/a/b" is kept as its segments <<a, b>>; "/" is one empty segment.
LastSegment(path) == path[Len(path)]

\* path === '/foods' || path.endsWith('/foods')
EndsWithFoods(path) == LastSegment(path) = FOODS

\* path.includes('/foods/')
IncludesFoodsSlash(path) == \E i \in 1..(Len(path) - 1) : path[i] = FOODS

\* path.includes('/search')
IncludesSearch(path) == \E i \in DOMAIN path : StartsWith(path[i], SEARCH)

\* what the handler does with one event, from the cached handle (pg, alive):
\* the response, the handle it leaves and the table it leaves
Outcome(resp, db, table) ==
    [response |-> resp, pg |-> db.pg, alive |-> db.alive,
     connects |-> db.connects, queries |-> db.queries, rows |-> table]

Untouched(pg, alive) ==
    [pg |-> pg, alive |-> alive, connects |-> 0, queries |-> 0]

\* GET /foods, lines 166-199
ListRoute(pg, alive) ==
    LET f == fetchFoodItemsFromDB(pg, alive)
    IN  IF Truthy(f.result)
        THEN Outcome(Reply(200,
                 [success |-> TRUE, data |-> f.result.items,
                  message |-> "Food items retrieved from PostgreSQL database",
                  source |-> "database", count |-> Len(f.result.items),
                  debug |-> "Successfully fetched from database"]), f.db, f.rows)
        ELSE Outcome(Reply(200,
                 [success |-> TRUE, data |-> foodDatabase,
                  message |-> "Food items retrieved from fallback data (database not available)",
                  source |-> "fallback",
                  debug |-> "No database client initialized"]), f.db, f.rows)

\* GET /foods/{id}, lines 202-249
GetByIdRoute(pg, alive, path) ==
    LET id == LastSegment(path)
        f == fetchFoodItemsFromDB(pg, alive)
        foodItem == IF Truthy(f.result)
                    THEN FindById(f.result.items, ParseInt(id))
                    ELSE Undefined
        food == FindById(foodDatabase, ParseInt(id))
    IN  IF Truthy(foodItem)
        THEN Outcome(Reply(200, [success |-> TRUE, data |-> foodItem.item,
                                 source |-> "database"]), f.db, f.rows)
        ELSE IF ~Truthy(food)
        THEN Outcome(Reply(404, [success |-> FALSE,
                                 error |-> "Food item not found"]), f.db, f.rows)
        ELSE Outcome(Reply(200, [success |-> TRUE, data |-> food.item,
                                 source |-> "fallback"]), f.db, f.rows)

\* the search route testing the name against undefined only
SearchRouteUndefinedOnly(pg, alive, query) ==
    LET searchName == IF query.t = "chars" THEN JChars(ToLower(query.s)) ELSE Undefined
    IN  IF searchName.t = "undefined"
        THEN Outcome(Reply(400, [success |-> FALSE,
                                 error |-> "Name parameter is required"]),
                     Untouched(pg, alive), rows)
        ELSE LET f == searchFoodItemsInDB(pg, alive, searchName.s)
                 matchingFoods ==
                     Filter(foodDatabase,
                            {x \in {foodDatabase[i] : i \in DOMAIN foodDatabase} :
                                Contains(ToLower(x.name), searchName.s)})
             IN  IF Truthy(f.result)
                 THEN Outcome(Reply(200,
                          [success |-> TRUE, data |-> f.result.items,
                           query |-> searchName.s,
                           message |-> "Found <n> matching items in database",
                           source |-> "database"]), f.db, f.rows)
                 ELSE Outcome(Reply(200,
                          [success |-> TRUE, data |-> matchingFoods,
                           query |-> searchName.s,
                           message |-> "Found <n> matching items in fallback data",
                           source |-> "fallback"]), f.db, f.rows)

\* GET /foods/search, lines 252-299
SearchRoute(pg, alive, query) ==
    LET searchName == IF query.t = "chars" THEN JChars(ToLower(query.s)) ELSE Undefined
    IN  IF ~Truthy(searchName)                                    \* line 256
        THEN Outcome(Reply(400, [success |-> FALSE,
                                 error |-> "Name parameter is required"]),
                     Untouched(pg, alive), rows)
        ELSE LET f == searchFoodItemsInDB(pg, alive, searchName.s)
                 matchingFoods ==
                     Filter(foodDatabase,
                            {x \in {foodDatabase[i] : i \in DOMAIN foodDatabase} :
                                Contains(ToLower(x.name), searchName.s)})
             IN  IF Truthy(f.result)
                 THEN Outcome(Reply(200,
                          [success |-> TRUE, data |-> f.result.items,
                           query |-> searchName.s,
                           message |-> "Found <n> matching items in database",
                           source |-> "database"]), f.db, f.rows)
                 ELSE Outcome(Reply(200,
                          [success |-> TRUE, data |-> matchingFoods,
                           query |-> searchName.s,
                           message |-> "Found <n> matching items in fallback data",
                           source |-> "fallback"]), f.db, f.rows)

\* JSON.parse(event.body || '{}'), line 303: the body is absent (Undefined),
\* text that is not JSON (NotJson), or JSON text, kept parsed
EmptyObject == [t |-> "object", name |-> Undefined, calories |-> Undefined]

ParseBody(body) ==
    IF ~Truthy(body) THEN Returns(EmptyObject)
    ELSE IF body = NotJson THEN Throws(JsonSyntaxError)
    ELSE Returns(body.json)

\* const { name, calories } = body, line 304: null cannot be destructured,
\* and a value without the properties gives undefined
Destructure(v) ==
    IF v.t \in {"null", "undefined"}
    THEN Throws([t |-> "object", name |-> "TypeError",
                 message |-> <<"Cannot", "destructure", "property", "name">>])
    ELSE IF v.t = "object"
         THEN Returns([name |-> v.name, calories |-> v.calories])
         ELSE Returns([name |-> Undefined, calories |-> Undefined])

\* line 308: !name || !calories
MissingField(name, calories) == ~Truthy(name) \/ ~Truthy(calories)

\* POST /foods, lines 302-352
CreateRoute(pg, alive, body) ==
    LET parsed == ParseBody(body)
        fields == Destructure(parsed.value)
    IN  IF parsed.kind = "throws" THEN parsed
        ELSE IF fields.kind = "throws" THEN fields
        ELSE LET name == fields.value.name
                 calories == fields.value.calories
             IN  IF MissingField(name, calories)
                 THEN Returns(Outcome(Reply(400,
                          [success |-> FALSE,
                           error |-> "Name and calories are required"]),
                          Untouched(pg, alive), rows))
                 ELSE LET c == createFoodItemInDB(pg, alive, name.s, calories.n)
                          newFood ==
                              [id |-> MaxOf({foodDatabase[i].id : i \in DOMAIN foodDatabase}) + 1,
                               name |-> name.s, calories |-> calories.n]
                      IN  IF Truthy(c.result)
                          THEN Returns(Outcome(Reply(201,
                                   [success |-> TRUE, data |-> c.result.item,
                                    message |-> "Food item created in PostgreSQL database",
                                    source |-> "database"]), c.db, c.rows))
                          ELSE Returns(Outcome(Reply(201,
                                   [success |-> TRUE, data |-> newFood,
                                    message |-> "Food item created in fallback storage (not persistent)",
                                    source |-> "fallback"]), c.db, c.rows))

\* the try block routing every POST to the create route
TryBlockPostAnywhere(event, pg, alive) ==
    LET path == event.path
        method == event.httpMethod
    IN  IF method = "GET" /\ EndsWithFoods(path)
        THEN Returns(ListRoute(pg, alive))
        ELSE IF method = "GET" /\ IncludesFoodsSlash(path) /\ ~IncludesSearch(path)
        THEN Returns(GetByIdRoute(pg, alive, path))
        ELSE IF method = "GET" /\ IncludesSearch(path)
        THEN Returns(SearchRoute(pg, alive, event.name))
        ELSE IF method = "POST"
        THEN CreateRoute(pg, alive, event.body)
        ELSE Returns(Outcome(Reply(404,
                 [success |-> FALSE,
                  error |-> "Route not found: <method> <path>",
                  availableRoutes |->
                      <<"GET /foods - Get all food items",
                        "GET /foods/{id} - Get specific food item",
                        "GET /foods/search?name={name} - Search food items",
                        "POST /foods - Create new food item">>]),
                 Untouched(pg, alive), rows))

\* the try block, lines 159-369
TryBlock(event, pg, alive) ==
    LET path == event.path
        method == event.httpMethod
    IN  IF method = "GET" /\ EndsWithFoods(path)
        THEN Returns(ListRoute(pg, alive))
        ELSE IF method = "GET" /\ IncludesFoodsSlash(path) /\ ~IncludesSearch(path)
        THEN Returns(GetByIdRoute(pg, alive, path))
        ELSE IF method = "GET" /\ IncludesSearch(path)
        THEN Returns(SearchRoute(pg, alive, event.name))
        ELSE IF method = "POST" /\ EndsWithFoods(path)
        THEN CreateRoute(pg, alive, event.body)
        ELSE Returns(Outcome(Reply(404,                              \* lines 354-369
                 [success |-> FALSE,
                  error |-> "Route not found: <method> <path>",
                  availableRoutes |->
                      <<"GET /foods - Get all food items",
                        "GET /foods/{id} - Get specific food item",
                        "GET /foods/search?name={name} - Search food items",
                        "POST /foods - Create new food item">>]),
                 Untouched(pg, alive), rows))

\* the handler without its catch block: the exception leaves the handler
\* and the invocation ends without a response
handlerWithoutCatch(event, pg, alive) ==
    IF event.httpMethod = "OPTIONS"
    THEN Outcome(Reply(200, [message |-> "CORS preflight successful"]),
                 Untouched(pg, alive), rows)
    ELSE LET t == TryBlock(event, pg, alive)
         IN  IF t.kind = "throws"
             THEN Outcome([statusCode |-> 0, thrown |-> t.error],
                          Untouched(pg, alive), rows)
             ELSE t.value

handler(event, pg, alive) ==
    IF event.httpMethod = "OPTIONS"
    THEN Outcome(Reply(200, [message |-> "CORS preflight successful"]),  \* lines 150-157
                 Untouched(pg, alive), rows)
    ELSE LET t == TryBlock(event, pg, alive)
         IN  IF t.kind = "throws"
             THEN Outcome(Reply(500,                                     \* lines 371-382
                      [success |-> FALSE, error |-> "Internal server error",
                       details |-> t.error.message]),
                      Untouched(pg, alive), rows)
             ELSE t.value

----------------------------------------------------------------------------
(* The handler as a state machine: one invocation per step in one Lambda   *)
(* instance; the store goes down and comes back; the instance is recycled. *)

MaxRows == 4

APPLE == <<"A", "p", "p", "l", "e">>
PINEAPPLE == <<"P", "i", "n", "e", "a", "p", "p", "l", "e">>
BANANA == <<"B", "a", "n", "a", "n", "a">>
MANGO == <<"M", "a", "n", "g", "o">>

\* a small table of rows (an empty one is the other initial table)
SeedRows ==
    { [id |-> 1, name |-> APPLE, calories |-> 95],
      [id |-> 2, name |-> PINEAPPLE, calories |-> 50],
      [id |-> 3, name |-> BANANA, calories |-> 105] }

Seg(n) == <<n>>

Paths ==
    { <<FOODS>>,                          \* /foods
      <<<<"p", "r", "o", "d">>, FOODS>>,  \* /prod/foods
      <<FOODS, Seg("2")>>,                \* /foods/2
      <<FOODS, Seg("4")>>,                \* /foods/4
      <<FOODS, <<"1", "1">>>>,            \* /foods/11
      <<FOODS, <<"9", "9">>>>,            \* /foods/99
      <<FOODS, <<"a", "b", "c">>>>,       \* /foods/abc
      <<FOODS, <<"3", "a", "b", "c">>>>,  \* /foods/3abc
      <<FOODS, <<>>>>,                    \* /foods/
      <<FOODS, SEARCH>>,                  \* /foods/search
      <<<<>>>> }                          \* /

\* queryStringParameters?.name
QueryNames ==
    { Undefined, JChars(<<>>), JChars(<<"a", "p", "p">>), JChars(<<"A", "N">>),
      JChars(<<"_">>), JChars(<<"z", "z">>) }

JsonText(v) == [t |-> "text", json |-> v]

\* event.body
PostBodies ==
    { Undefined, NotJson, JsonText(Null), JsonText(JArr(<<>>)) }
        \cup { JsonText([t |-> "object", name |-> n, calories |-> c]) :
                 n \in {Undefined, JChars(<<>>), JChars(MANGO)},
                 c \in {Undefined, JNum(0), JNum(60)} }

Event(method, path, name, body) ==
    [httpMethod |-> method, path |-> path, name |-> name, body |-> body]

Events ==
    { Event("OPTIONS", <<FOODS>>, Undefined, Undefined) }
        \cup { Event("GET", p, Undefined, Undefined) : p \in Paths }
        \cup { Event("GET", <<FOODS, SEARCH>>, q, Undefined) : q \in QueryNames }
        \cup { Event("POST", <<FOODS>>, Undefined, b) : b \in PostBodies }
        \cup { Event(m, <<FOODS, Seg("2")>>, Undefined,
                     JsonText([t |-> "object", name |-> JChars(MANGO),
                               calories |-> JNum(60)])) :
                 m \in {"POST", "PUT", "DELETE"} }

----------------------------------------------------------------------------
(* POST /foods in several instances of the handler against one store.      *)
(* Each instance has its own module state (line 5); createFoodItemInDB     *)
(* sends its SELECT and its INSERT as two statements (lines 77-83), and    *)
(* other instances' statements come in between.                            *)

NumInstances == 2
Instances == 1..NumInstances

\* 201 responses in one behaviour
MaxIssued == 3

IdleInstance == [pc |-> "idle", pg |-> "null", alive |-> FALSE, nextId |-> 0]

\* line 77: SELECT COALESCE(MAX(id), 0) + 1 as next_id FROM food_items
SelectNextId(table) == MaxOf({r.id : r \in table}) + 1

\* an INSERT that does not test the key
InsertRowNoKey(table, row) == [ok |-> TRUE, table |-> table \cup {row}]

\* lines 80-83: INSERT INTO food_items (id, name, calories); id is the
\* table's PRIMARY KEY, so a row whose id is taken is refused
InsertRow(table, row) ==
    IF \E r \in table : r.id = row.id
    THEN [ok |-> FALSE, table |-> table]
    ELSE [ok |-> TRUE, table |-> table \cup {row}]

\* lines 335-339: the record made up when createFoodItemInDB returned null
newFood(name, calories) ==
    [id |-> MaxOf({foodDatabase[i].id : i \in DOMAIN foodDatabase}) + 1,
     name |-> name, calories |-> calories]

\* lines 321-332 and 342-351: what a 201 response says, and whether the
\* instance's connection was alive when its INSERT was sent
Created(i, item, source, live) ==
    [by |-> i, id |-> item.id, source |-> source, live |-> live]

\* the body every instance is sent: {"name": "Mango", "calories": 60}
PostedName == MANGO
PostedCalories == 60

AnswerFallback(i, live) ==
    issued' = Append(issued, Created(i, newFood(PostedName, PostedCalories),
                                     "fallback", live))

\* lines 302-319 and 72-73: the body is checked and the client is obtained;
\* without a client the answer is the made-up record
PostBegin(i) ==
    /\ inst[i].pc = "idle"
    /\ Len(issued) + Cardinality({j \in Instances : inst[j].pc # "idle"}) < MaxIssued
    /\ ~MissingField(JChars(PostedName), JNum(PostedCalories))
    /\ \E c \in {initializePostgreSQLClient(inst[i].pg, inst[i].alive)} :
          IF c.client = "null"
          THEN /\ inst' = [inst EXCEPT ![i].pg = c.pg, ![i].alive = c.alive]
               /\ AnswerFallback(i, FALSE)
          ELSE /\ inst' = [inst EXCEPT ![i].pc = "select", ![i].pg = c.pg,
                                       ![i].alive = c.alive]
               /\ issued' = issued
    /\ UNCHANGED <<storeUp, connString, rows>>
    /\ UNCHANGED <<pgClient, connAlive, request, response, connects, queries, seen>>
    /\ UNCHANGED clientVars
    /\ UNCHANGED sideVars

\* lines 77-78: the SELECT; when it throws, line 91 gives null
PostSelect(i) ==
    /\ inst[i].pc = "select"
    /\ IF inst[i].alive
       THEN /\ inst' = [inst EXCEPT ![i].pc = "insert",
                                    ![i].nextId = SelectNextId(rows)]
            /\ issued' = issued
       ELSE /\ inst' = [inst EXCEPT ![i].pc = "idle"]
            /\ AnswerFallback(i, FALSE)
    /\ UNCHANGED <<storeUp, connString, rows>>
    /\ UNCHANGED <<pgClient, connAlive, request, response, connects, queries, seen>>
    /\ UNCHANGED clientVars
    /\ UNCHANGED sideVars

\* lines 80-94: the INSERT, and the answer
PostInsert(i) ==
    /\ inst[i].pc = "insert"
    /\ inst' = [inst EXCEPT ![i].pc = "idle"]
    /\ \E row \in {[id |-> inst[i].nextId, name |-> PostedName,
                    calories |-> PostedCalories]} :
       \E done \in {InsertRow(rows, row)} :
          IF inst[i].alive /\ done.ok
          THEN /\ rows' = done.table
               /\ issued' = Append(issued, Created(i, RowToItem(row), "database",
                                                    TRUE))
          ELSE /\ rows' = rows
               /\ AnswerFallback(i, inst[i].alive)
    /\ UNCHANGED <<storeUp, connString>>
    /\ UNCHANGED <<pgClient, connAlive, request, response, connects, queries, seen>>
    /\ UNCHANGED clientVars
    /\ UNCHANGED sideVars

\* the server stops: every instance's connection is dropped
StoreFails ==
    /\ storeUp
    /\ storeUp' = FALSE
    /\ inst' = [i \in Instances |-> [inst[i] EXCEPT !.alive = FALSE]]
    /\ UNCHANGED <<connString, rows, issued>>
    /\ UNCHANGED <<pgClient, connAlive, request, response, connects, queries, seen>>
    /\ UNCHANGED clientVars
    /\ UNCHANGED sideVars

StoreReturns ==
    /\ ~storeUp
    /\ storeUp' = TRUE
    /\ UNCHANGED <<connString, rows, inst, issued>>
    /\ UNCHANGED <<pgClient, connAlive, request, response, connects, queries, seen>>
    /\ UNCHANGED clientVars
    /\ UNCHANGED sideVars

CreatesQuiet ==
    /\ inst = [i \in Instances |-> IdleInstance]
    /\ issued = <<>>

----------------------------------------------------------------------------

NoEvent == [httpMethod |-> "none"]
NoResponse == [statusCode |-> 0]
NotSeen == [pg |-> "none"]

HandlerQuiet ==
    /\ pgClient = "null"
    /\ connAlive = FALSE
    /\ request = NoEvent
    /\ response = NoResponse
    /\ connects = 0
    /\ queries = 0
    /\ seen = NotSeen
    /\ CreatesQuiet

\* one invocation of the handler, start to response
InvokeSteps(event) ==
    \E o \in {handler(event, pgClient, connAlive)} :
        /\ Cardinality(o.rows) <= MaxRows
        /\ request' = event
        /\ response' = o.response
        /\ pgClient' = o.pg
        /\ connAlive' = o.alive
        /\ connects' = o.connects
        /\ queries' = o.queries
        /\ seen' = [pg |-> pgClient, alive |-> connAlive, up |-> storeUp,
                    rows |-> rows]
        /\ rows' = o.rows
        /\ UNCHANGED <<storeUp, connString>>
        /\ UNCHANGED <<inst, issued>>

\* an invocation whose event is any client's
Invoke(event) ==
    /\ InvokeSteps(event)
    /\ UNCHANGED clientVars
    /\ UNCHANGED sideVars

\* the server stops accepting connections and drops the open ones
StoreDown ==
    /\ storeUp
    /\ storeUp' = FALSE
    /\ connAlive' = FALSE
    /\ UNCHANGED <<pgClient, connString, rows, request, response, connects,
                   queries, seen>>
    /\ UNCHANGED clientVars
    /\ UNCHANGED sideVars
    /\ UNCHANGED <<inst, issued>>

StoreUp ==
    /\ ~storeUp
    /\ storeUp' = TRUE
    /\ UNCHANGED <<pgClient, connAlive, connString, rows, request, response,
                   connects, queries, seen>>
    /\ UNCHANGED clientVars
    /\ UNCHANGED sideVars
    /\ UNCHANGED <<inst, issued>>

\* the platform starts a fresh instance: module state is initial again (line 5)
ColdStart ==
    /\ pgClient # "null"
    /\ pgClient' = "null"
    /\ connAlive' = FALSE
    /\ UNCHANGED <<storeUp, connString, rows, request, response, connects,
                   queries, seen>>
    /\ UNCHANGED clientVars
    /\ UNCHANGED sideVars
    /\ UNCHANGED <<inst, issued>>

----------------------------------------------------------------------------
(* The search-only handler, src/unnamed/part_001.                          *)

NoDbClient == [t |-> "null"]

\* new Client(...), line 31; connected tells whether its connection works
DbClient(connected) == [t |-> "client", connected |-> connected]

\* dbClient.ended, line 24: a pg Client has no property of that name
Ended(db) == Undefined

\* what secretsClient.send and CREATE TABLE IF NOT EXISTS do in one invocation
StepOutcomes == {"ok", "throws"}

ConnectError(what) ==
    [t |-> "object", name |-> "Error", message |-> what]

\* connectToDb, lines 23-64: the client it hands over or the error it
\* throws, the module's dbClient afterwards, the connection attempts made
connectToDb(db, credentials, table) ==
    IF db.t = "client" /\ ~Truthy(Ended(db))                       \* lines 24-26
    THEN [result |-> Returns(db), db |-> db, connects |-> 0]
    ELSE IF credentials = "throws"                                  \* line 29
    THEN [result |-> Throws(ConnectError("credentials")), db |-> db,
          connects |-> 0]
    ELSE IF ~storeUp                                                \* lines 31-44
    THEN [result |-> Throws(ConnectError("connect")),
          db |-> DbClient(FALSE), connects |-> 1]
    ELSE IF table = "throws"                                        \* lines 48-55
    THEN [result |-> Throws(ConnectError("create table")),
          db |-> DbClient(TRUE), connects |-> 1]
    ELSE [result |-> Returns(DbClient(TRUE)), db |-> DbClient(TRUE),
          connects |-> 1]

\* lines 67-72
SearchOnlyHeaders ==
    [AccessControlAllowOrigin |-> "*",
     AccessControlAllowHeaders |->
        "Content-Type,X-Amz-Date,Authorization,X-Api-Key,X-Amz-Security-Token",
     AccessControlAllowMethods |-> "GET,OPTIONS",
     ContentType |-> "application/json"]

SearchOnlyReply(status, body) ==
    [statusCode |-> status, headers |-> SearchOnlyHeaders, body |-> body]

\* event.path.includes('/foods/search')
IncludesFoodsSearch(path) ==
    \E i \in 1..(Len(path) - 1) : path[i] = FOODS /\ StartsWith(path[i + 1], SEARCH)

\* lines 87-93: name ILIKE '%term%'; the rows are kept as a set, their
\* ORDER BY name is left out
SearchQuery(term) ==
    {r \in rows : Like(ToLower(r.name), ToLower(<<"%">> \o term \o <<"%">>))}

\* exports.handler, lines 66-133
searchOnlyHandler(event, db, credentials, table) ==
    IF event.httpMethod = "OPTIONS"                                 \* lines 76-82
    THEN [response |-> SearchOnlyReply(200, [message |-> "CORS preflight successful"]),
          db |-> db, connects |-> 0]
    ELSE IF event.httpMethod = "GET" /\ IncludesFoodsSearch(event.path)
    THEN LET c == connectToDb(db, credentials, table)
             searchTerm == IF Truthy(event.name) THEN event.name.s ELSE <<>>
         IN  IF c.result.kind = "throws"
             THEN [response |-> SearchOnlyReply(500,                \* lines 120-131
                       [success |-> FALSE, error |-> "Internal server error",
                        details |-> c.result.error.message,
                        source |-> "postgresql"]),
                   db |-> c.db, connects |-> c.connects]
             ELSE IF ~c.result.value.connected                      \* db.query throws
             THEN [response |-> SearchOnlyReply(500,
                       [success |-> FALSE, error |-> "Internal server error",
                        details |-> "query",
                        source |-> "postgresql"]),
                   db |-> c.db, connects |-> c.connects]
             ELSE [response |-> SearchOnlyReply(200,                \* lines 95-105
                       [success |-> TRUE, data |-> SearchQuery(searchTerm),
                        message |-> "Search results for <term>",
                        source |-> "postgresql",
                        count |-> Cardinality(SearchQuery(searchTerm))]),
                   db |-> c.db, connects |-> c.connects]
    ELSE [response |-> SearchOnlyReply(404,                         \* lines 109-118
              [success |-> FALSE, error |-> "Only search endpoint is supported",
               path |-> event.path, method |-> event.httpMethod]),
          db |-> db, connects |-> 0]

SearchOnlyEvents ==
    { Event("OPTIONS", <<FOODS, SEARCH>>, Undefined, Undefined),
      Event("GET", <<FOODS>>, Undefined, Undefined),
      Event("POST", <<FOODS, SEARCH>>, Undefined, Undefined) }
        \cup { Event("GET", <<FOODS, SEARCH>>, q, Undefined) : q \in QueryNames }

\* the latest invocation made a connection attempt and it failed
ConnectFailed ==
    /\ searchReply.statusCode = 500
    /\ searchReply.body.details \in {"credentials", "connect", "create table"}

\* one invocation of the search-only handler
InvokeSearchOnly(event, credentials, table) ==
    \E o \in {searchOnlyHandler(event, dbClient, credentials, table)} :
        /\ searchRequest' = event
        /\ searchReply' = o.response
        /\ dbClient' = o.db
        /\ dbConnects' = o.connects
        /\ searchSeen' = [db |-> dbClient, up |-> storeUp,
                          credentials |-> credentials, table |-> table,
                          afterFailure |-> ConnectFailed,
                          failure |-> IF ConnectFailed
                                      THEN searchReply.body.details
                                      ELSE "none"]
        /\ UNCHANGED <<clientVars, handlerVars>>
        /\ UNCHANGED callVars
        /\ UNCHANGED refreshVars
        /\ UNCHANGED authVars

\* the server stops: the open connection is dropped
SearchStoreFails ==
    /\ storeUp
    /\ storeUp' = FALSE
    /\ dbClient' = IF dbClient.t = "client" THEN DbClient(FALSE) ELSE dbClient
    /\ UNCHANGED <<searchRequest, searchReply, dbConnects, searchSeen>>
    /\ UNCHANGED <<pgClient, connAlive, connString, rows, request, response,
                   connects, queries, seen, inst, issued>>
    /\ UNCHANGED clientVars
    /\ UNCHANGED callVars
    /\ UNCHANGED refreshVars
    /\ UNCHANGED authVars

SearchStoreReturns ==
    /\ ~storeUp
    /\ storeUp' = TRUE
    /\ UNCHANGED searchVars
    /\ UNCHANGED <<pgClient, connAlive, connString, rows, request, response,
                   connects, queries, seen, inst, issued>>
    /\ UNCHANGED clientVars
    /\ UNCHANGED callVars
    /\ UNCHANGED refreshVars
    /\ UNCHANGED authVars

SearchQuiet ==
    /\ dbClient = NoDbClient
    /\ searchRequest = NoEvent
    /\ searchReply = NoResponse
    /\ dbConnects = 0
    /\ searchSeen = NotSeen

----------------------------------------------------------------------------
(* createFood end to end: the client's attempts reach the handler, and a   *)
(* response may be lost on its way back.                                   *)

\* the body createFood sends, lines 243-246
CreateEvent ==
    Event("POST", <<FOODS>>, Undefined,
          JsonText([t |-> "object", name |-> JChars(PostedName),
                    calories |-> JNum(PostedCalories)]))

\* JSON.stringify in the handler and response.json() in the client: the
\* envelope as the client reads it, an object whose data is the record
WireItem(item) ==
    [t |-> "object", data |-> Undefined, id |-> item.id, name |-> item.name,
     calories |-> item.calories]

WireBody(body) ==
    [t |-> "object",
     data |-> IF Has(body, "data") THEN WireItem(body.data) ELSE Undefined]

\* what fetch gives the client for the handler's response
WireResponse(resp) ==
    Responded(resp.statusCode,
              IF ResponseOk(resp.statusCode) THEN WireBody(resp.body) ELSE NotJson)

\* what becomes of one attempt's request
Fates == {"never sent", "answered", "answer lost", "gateway timeout"}

FailedToFetch ==
    [t |-> "object", name |-> "TypeError", message |-> <<"Failed", "to", "fetch">>]

\* API Gateway gives up on the integration while the function goes on
GatewayTimeout == Responded(504, NotJson)

\* createFood is called: executeWithRetry(operation, 'createFood', 0)
StartCreate ==
    /\ pc = "idle"
    /\ pc' = "attempt"
    /\ op' = "createFood"
    /\ rowsAtCall' = rows
    /\ UNCHANGED <<retryCount, attemptLog, delays, outcome, lastSession,
                   lastRequest, lastBody, lastThrown>>
    /\ UNCHANGED handlerVars
    /\ UNCHANGED searchVars
    /\ UNCHANGED refreshVars
    /\ UNCHANGED authVars

\* one attempt of createFood, with the handler's invocation when the
\* request reaches it
CreateAttempt(session, fate) ==
    /\ op = "createFood"
    /\ IF fate = "never sent"
       THEN /\ AttemptSteps(session, Rejected(FailedToFetch))
            /\ UNCHANGED handlerVars
       ELSE /\ getAuthHeaders(session).kind = "returns"
            /\ InvokeSteps(CreateEvent)
            /\ AttemptSteps(session,
                   CASE fate = "answered" -> WireResponse(response')
                     [] fate = "answer lost" -> Rejected(FailedToFetch)
                     [] fate = "gateway timeout" -> GatewayTimeout)
    /\ UNCHANGED searchVars
    /\ UNCHANGED callVars
    /\ UNCHANGED refreshVars
    /\ UNCHANGED authVars

\* the backoff delay and the return to the caller, as in the client alone
CreateDelay == op = "createFood" /\ Delay

CreateFinish == op = "createFood" /\ Finish

CallQuiet == rowsAtCall = {}

----------------------------------------------------------------------------
(* useEnhancedAuth, src/unnamed/part_013. checkSession and refreshSession  *)
(* are closures of one render: each call in flight reads the user and the  *)
(* isRefreshing of the render that made it. A state update is taken to be  *)
(* rendered at once, so the timer and the hub listener, which the effect   *)
(* sets up anew whenever user or isRefreshing changes (line 174), always   *)
(* call the closures of the current render.                                *)

\* calls of checkSession and refreshSession in flight at one time
MaxTasks == 3
Slots == 1..MaxTasks

NoTask == [kind |-> "none"]

\* kinds of call in flight, each waiting at its await:
\*   "check"   checkSession at line 43
\*   "force"   refreshSession at line 92
\*   "nested"  refreshSession at line 93, in its checkSession at line 43
Task(kind, user, refreshing) ==
    [kind |-> kind, user |-> user, refreshing |-> refreshing]

InvalidSession == [isValid |-> FALSE, isExpiringSoon |-> FALSE]   \* lines 33-38
NoAuthError == "none"

\* the access token: more than 5 minutes left, 5 minutes or less, expired
TokenStates == {"fresh", "soon", "expired"}

\* what fetchAuthSession() gives checkSession, line 43
SessionReads == {"throws", "no token", "token"}

\* what fetchAuthSession({ forceRefresh: true }) does, line 92
ForceOutcomes == {"throws", "fresh", "soon"}

\* the hook's state and its calls in flight, as one value
World == [isRefreshing |-> isRefreshing, authError |-> authError,
          sessionInfo |-> sessionInfo, tasks |-> tasks, overflow |-> FALSE]

FreeSlots(w) == {s \in Slots : w.tasks[s] = NoTask}

\* a call reaches its await and stays in flight
Spawn(w, task) ==
    IF FreeSlots(w) = {} THEN [w EXCEPT !.overflow = TRUE]
    ELSE [w EXCEPT !.tasks[CHOOSE s \in FreeSlots(w) :
                              \A q \in FreeSlots(w) : s <= q] = task]

\* checkSession up to its await, lines 31-43
StartCheck(w, user, refreshing) ==
    IF ~user THEN [w EXCEPT !.sessionInfo = InvalidSession]
    ELSE Spawn(w, Task("check", user, refreshing))

\* setIsRefreshing(v): a new value renders the hook again, the effect of
\* lines 114-174 runs again and calls checkSession when there is a user
SetRefreshing(w, v) ==
    IF w.isRefreshing = v THEN w
    ELSE LET rendered == [w EXCEPT !.isRefreshing = v]
         IN  IF authUser THEN StartCheck(rendered, authUser, v) ELSE rendered

\* line 85: if (isRefreshing) return, isRefreshing being the closure's
RefreshGuard(w, refreshing) == refreshing

\* refreshSession up to its first await, lines 84-92
StartRefresh(w, user, refreshing) ==
    IF RefreshGuard(w, refreshing) THEN w
    ELSE Spawn([SetRefreshing(w, TRUE) EXCEPT !.authError = NoAuthError],
               Task("force", user, refreshing))

\* checkSession after its await, lines 44-80
FinishCheck(w, task, read) ==
    IF read = "throws"
    THEN [w EXCEPT !.authError = "SESSION_CHECK_FAILED"]
    ELSE IF read = "no token"
    THEN [w EXCEPT !.sessionInfo = InvalidSession]
    ELSE LET isExpiringSoon == tokenState \in {"soon", "expired"}
             isValid == tokenState # "expired"
             informed == [w EXCEPT !.sessionInfo =
                             [isValid |-> isValid,
                              isExpiringSoon |-> isExpiringSoon]]
         IN  IF isExpiringSoon /\ isValid /\ ~RefreshGuard(w, task.refreshing)
             THEN StartRefresh(informed, task.user, task.refreshing)
             ELSE informed

Release(w, s) == [w EXCEPT !.tasks[s] = NoTask]

\* the world a step leaves becomes the state
Becomes(w) ==
    /\ ~w.overflow
    /\ isRefreshing' = w.isRefreshing
    /\ authError' = w.authError
    /\ sessionInfo' = w.sessionInfo
    /\ tasks' = w.tasks

RestUnchanged ==
    /\ UNCHANGED <<clientVars, handlerVars>>
    /\ UNCHANGED <<searchVars, callVars, authVars>>

\* the hub listener, lines 115-154
HubEvents ==
    {"signedIn", "signedOut", "tokenRefresh", "tokenRefresh_failure",
     "signIn_failure"}

HubEvent(e) ==
    /\ Becomes(CASE e = "signedIn" ->
                      StartCheck([World EXCEPT !.authError = NoAuthError],
                                 authUser, isRefreshing)
                 [] e = "signedOut" ->
                      [World EXCEPT !.sessionInfo = InvalidSession,
                                    !.authError = NoAuthError]
                 [] e = "tokenRefresh" ->
                      StartCheck(World, authUser, isRefreshing)
                 [] e = "tokenRefresh_failure" ->
                      [World EXCEPT !.authError = "TOKEN_REFRESH_FAILED"]
                 [] e = "signIn_failure" ->
                      [World EXCEPT !.authError = "SIGNIN_FAILED"])
    /\ UNCHANGED <<authUser, tokenState>>
    /\ RestUnchanged

\* the 30-second timer, lines 164-168
TimerTick ==
    /\ authUser
    /\ Becomes(StartCheck(World, authUser, isRefreshing))
    /\ UNCHANGED <<authUser, tokenState>>
    /\ RestUnchanged

\* the component calls the refreshSession the hook returned
CallRefreshSession ==
    /\ Becomes(StartRefresh(World, authUser, isRefreshing))
    /\ UNCHANGED <<authUser, tokenState>>
    /\ RestUnchanged

\* the component calls clearError, lines 109-111
ClearError ==
    /\ Becomes([World EXCEPT !.authError = NoAuthError])
    /\ UNCHANGED <<authUser, tokenState>>
    /\ RestUnchanged

\* useAuthenticator gives another user: the hook renders again and the
\* effect makes its initial session check, lines 159-161
UserChanges ==
    /\ authUser' = ~authUser
    /\ Becomes(IF ~authUser THEN StartCheck(World, TRUE, isRefreshing) ELSE World)
    /\ UNCHANGED tokenState
    /\ RestUnchanged

\* time passes: the token comes within 5 minutes of its expiry, or past it
TokenAges ==
    /\ tokenState # "expired"
    /\ tokenState' = IF tokenState = "fresh" THEN "soon" ELSE "expired"
    /\ UNCHANGED <<isRefreshing, authError, sessionInfo, tasks, authUser>>
    /\ RestUnchanged

\* a checkSession in flight gets its session
ResumeCheck(s, read) ==
    /\ tasks[s].kind = "check"
    /\ Becomes(FinishCheck(Release(World, s), tasks[s], read))
    /\ UNCHANGED <<authUser, tokenState>>
    /\ RestUnchanged

\* a refreshSession in flight gets the outcome of its forced refresh:
\* lines 92-105
ResumeForce(s, forced) ==
    /\ tasks[s].kind = "force"
    /\ IF forced = "throws"
       THEN /\ Becomes(SetRefreshing(
                   [Release(World, s) EXCEPT !.authError = "REFRESH_FAILED"],
                   FALSE))
            /\ tokenState' = tokenState
       ELSE /\ tokenState' = forced
            /\ IF ~tasks[s].user
               THEN Becomes(SetRefreshing(
                       [Release(World, s) EXCEPT !.sessionInfo = InvalidSession],
                       FALSE))
               ELSE Becomes([World EXCEPT !.tasks[s].kind = "nested"])
    /\ UNCHANGED authUser
    /\ RestUnchanged

\* the checkSession that refreshSession awaits gets its session, and
\* refreshSession ends: lines 93-105
ResumeNested(s, read) ==
    /\ tasks[s].kind = "nested"
    /\ Becomes(SetRefreshing(FinishCheck(Release(World, s), tasks[s], read),
                             FALSE))
    /\ UNCHANGED <<authUser, tokenState>>
    /\ RestUnchanged

RefreshQuiet ==
    /\ isRefreshing = FALSE
    /\ authError = NoAuthError
    /\ sessionInfo = InvalidSession
    /\ tasks = [s \in Slots |-> NoTask]
    /\ authUser = FALSE
    /\ tokenState = "fresh"

----------------------------------------------------------------------------
(* AuthProvider, src/unnamed/part_012, and ProtectedRoute,                 *)
(* src/src/components/ProtectedRoute.tsx. The application is mounted with  *)
(* createRoot (src/src/main.tsx line 17), so the state updates one         *)
(* handler makes before it returns or awaits are rendered together.        *)

\* calls awaiting Amplify at one time, the effect's due call included
MaxPending == 2

\* the calls in flight, by the await they wait at:
\*   "check"    checkAuthState at line 94
\*   "refresh"  refreshSession at line 119
\*   "signOut"  signOut at line 140
\*   "session"  the periodic session check at line 202
PendingKinds == {"check", "refresh", "signOut", "session"}

\* a || b
JsOr(a, b) == IF Truthy(a) THEN a ELSE b

\* an error as handleAuthError reads it: code and name, either may be absent
AuthErrorOf(code, name) == [t |-> "object", code |-> code, name |-> name]

\* the errors Amplify throws or sends with a failure event
ThrownErrors ==
    {AuthErrorOf(Undefined, JStr("NotAuthorizedException")),
     AuthErrorOf(Undefined, JStr("TokenExpiredException")),
     AuthErrorOf(JStr("CredentialsError"), JStr("Error")),
     AuthErrorOf(Undefined, JStr("NetworkError")),
     AuthErrorOf(Undefined, JStr("UserNotConfirmedException")),
     AuthErrorOf(Undefined, JStr("Error")),
     AuthErrorOf(Undefined, Undefined)}

\* new Error('Failed to refresh session - no tokens received'), line 126
NoTokensError == AuthErrorOf(Undefined, JStr("Error"))

\* the AuthUser built at lines 97-102
SignedInUser == [t |-> "object", username |-> "cole"]

\* lines 53-56
clearError(a) == [a EXCEPT !.error = Null, !.sessionExpired = FALSE]

\* handleAuthError marking the session expired and keeping the user
handleAuthErrorKeepingUser(a, thrown) ==
    LET key == JsOr(thrown.code, thrown.name)
        errorObj == AuthErrorOf(JsOr(key, JStr("UNKNOWN_ERROR")),
                                JsOr(thrown.name, JStr("AuthError")))
        withError == [a EXCEPT !.error = errorObj]
    IN  CASE key \in {JStr("NotAuthorizedException"),
                      JStr("TokenExpiredException"),
                      JStr("CredentialsError")} ->
                 [withError EXCEPT !.sessionExpired = TRUE]
          [] key \in {JStr("NetworkError"),
                      JStr("UserNotConfirmedException")} -> withError
          [] OTHER -> [withError EXCEPT !.user = Null]

\* lines 58-87
handleAuthError(a, thrown) ==
    LET key == JsOr(thrown.code, thrown.name)
        errorObj == AuthErrorOf(JsOr(key, JStr("UNKNOWN_ERROR")),
                                JsOr(thrown.name, JStr("AuthError")))
        withError == [a EXCEPT !.error = errorObj]
    IN  CASE key \in {JStr("NotAuthorizedException"),
                      JStr("TokenExpiredException"),
                      JStr("CredentialsError")} ->
                 [withError EXCEPT !.sessionExpired = TRUE, !.user = Null]
          [] key \in {JStr("NetworkError"),
                      JStr("UserNotConfirmedException")} -> withError
          [] OTHER -> [withError EXCEPT !.user = Null]

\* line 51
isAuthenticated == Truthy(auth.user) /\ ~auth.sessionExpired

\* what ProtectedRoute returns, lines 27-122
ProtectedRoute(requireAuth, fallback) ==
    IF auth.isLoading THEN "LoadingSpinner"
    ELSE IF auth.sessionExpired THEN "Session Expired"
    ELSE IF Truthy(auth.error) THEN "ErrorDisplay"
    ELSE IF requireAuth /\ ~isAuthenticated
    THEN IF fallback THEN "fallback" ELSE "Authentication Required"
    ELSE "children"

PendingCalls ==
    pending["check"] + pending["refresh"] + pending["signOut"]
        + pending["session"]

More(kind) == [pending EXCEPT ![kind] = @ + 1]
Fewer(kind) == [pending EXCEPT ![kind] = @ - 1]

AuthRestUnchanged ==
    /\ UNCHANGED <<clientVars, handlerVars>>
    /\ UNCHANGED <<searchVars, callVars, refreshVars>>

\* a handler's updates are rendered. The effect of lines 156-215 is due
\* again when user or sessionExpired is another value than before: every
\* AuthUser that checkAuthState builds is another object (fresh).
Render(a, calls, fresh) ==
    /\ auth' = a
    /\ pending' = calls
    /\ effectDue' = \/ fresh
                    \/ a.user # auth.user
                    \/ a.sessionExpired # auth.sessionExpired
    /\ LET total == calls["check"] + calls["refresh"] + calls["signOut"]
                        + calls["session"]
       IN  total + (IF effectDue' THEN 1 ELSE 0) <= MaxPending
    /\ AuthRestUnchanged

\* checkAuthState up to its await, lines 89-94
checkAuthStateBegins(a) == clearError([a EXCEPT !.isLoading = TRUE])

\* the effect runs after the render that changed its dependencies: its
\* initial auth check, line 158
RunEffect ==
    /\ effectDue
    /\ Render(checkAuthStateBegins(auth), More("check"), FALSE)

\* the component calls checkAuthState
CallCheckAuthState ==
    /\ ~effectDue
    /\ Render(checkAuthStateBegins(auth), More("check"), FALSE)

\* getCurrentUser() settles: lines 94-113
CurrentUsers == {"user", "none"}

CheckReturns(currentUser) ==
    /\ ~effectDue
    /\ pending["check"] > 0
    /\ IF currentUser = "user"
       THEN Render([auth EXCEPT !.user = SignedInUser,
                                !.sessionExpired = FALSE,
                                !.isLoading = FALSE],
                   Fewer("check"), TRUE)
       ELSE Render([auth EXCEPT !.user = Null, !.isLoading = FALSE],
                   Fewer("check"), FALSE)

CheckThrows(thrown) ==
    /\ ~effectDue
    /\ pending["check"] > 0
    /\ Render([handleAuthError(auth, thrown) EXCEPT !.isLoading = FALSE],
              Fewer("check"), FALSE)

\* the component calls refreshSession: lines 116-119
CallProviderRefresh ==
    /\ ~effectDue
    /\ Render(clearError(auth), More("refresh"), FALSE)

\* fetchAuthSession({ forceRefresh: true }) settles: lines 119-132
RefreshReturns(tokens) ==
    /\ ~effectDue
    /\ pending["refresh"] > 0
    /\ IF tokens
       THEN Render(checkAuthStateBegins(auth),
                   [Fewer("refresh") EXCEPT !["check"] = @ + 1], FALSE)
       ELSE Render(handleAuthError(auth, NoTokensError), Fewer("refresh"),
                   FALSE)

RefreshThrows(thrown) ==
    /\ ~effectDue
    /\ pending["refresh"] > 0
    /\ Render(handleAuthError(auth, thrown), Fewer("refresh"), FALSE)

\* the component calls signOut: lines 135-140
CallSignOut ==
    /\ ~effectDue
    /\ Render(clearError([auth EXCEPT !.isLoading = TRUE]), More("signOut"),
              FALSE)

\* amplifySignOut() settles: lines 140-152
SignOutReturns ==
    /\ ~effectDue
    /\ pending["signOut"] > 0
    /\ Render([auth EXCEPT !.user = Null, !.sessionExpired = FALSE,
                           !.isLoading = FALSE],
              Fewer("signOut"), FALSE)

SignOutThrows(thrown) ==
    /\ ~effectDue
    /\ pending["signOut"] > 0
    /\ Render([handleAuthError(auth, thrown) EXCEPT !.user = Null,
                                                      !.isLoading = FALSE],
              Fewer("signOut"), FALSE)

\* the component calls clearError
CallClearError ==
    /\ ~effectDue
    /\ Render(clearError(auth), pending, FALSE)

\* the hub listener, lines 161-194. A failure event without data makes
\* handleAuthError throw at line 62, before any update.
ProviderEvents ==
    {"signedIn", "signedOut", "tokenRefresh", "tokenRefresh_failure",
     "signIn_failure", "other"}

ProviderHubEvent(e, data) ==
    /\ ~effectDue
    /\ CASE e \in {"signedIn", "tokenRefresh"} ->
              Render(checkAuthStateBegins(auth), More("check"), FALSE)
         [] e = "signedOut" ->
              Render(clearError([auth EXCEPT !.user = Null,
                                             !.sessionExpired = FALSE]),
                     pending, FALSE)
         [] e \in {"tokenRefresh_failure", "signIn_failure"} ->
              IF data = Undefined THEN Render(auth, pending, FALSE)
              ELSE Render(handleAuthError(auth, data), pending, FALSE)
         [] OTHER -> Render(auth, pending, FALSE)

\* the 5-minute timer, lines 199-202
SessionCheckTick ==
    /\ ~effectDue
    /\ Truthy(auth.user) /\ ~auth.sessionExpired
    /\ Render(auth, More("session"), FALSE)

\* its fetchAuthSession() settles, lines 202-206
SessionCheckReturns ==
    /\ ~effectDue
    /\ pending["session"] > 0
    /\ Render(auth, Fewer("session"), FALSE)

SessionCheckThrows(thrown) ==
    /\ ~effectDue
    /\ pending["session"] > 0
    /\ Render(handleAuthError(auth, thrown), Fewer("session"), FALSE)

\* AuthProvider mounted: the useState values of lines 46-49, and the
\* effect's checkAuthState at its await
AuthQuiet ==
    /\ auth = [user |-> Null, isLoading |-> TRUE, error |-> Null,
               sessionExpired |-> FALSE]
    /\ pending = [k \in PendingKinds |-> IF k = "check" THEN 1 ELSE 0]
    /\ effectDue = FALSE

SideQuiet == SearchQuiet /\ CallQuiet /\ RefreshQuiet /\ AuthQuiet

----------------------------------------------------------------------------
(* Specifications                                                          *)

\* the client alone, its transport being any server
InitClient ==
    /\ ClientIdle
    /\ HandlerQuiet
    /\ SideQuiet
    /\ storeUp = TRUE
    /\ connString = TRUE
    /\ rows = {}

NextClient ==
    \/ \E o \in Ops : StartCall(o)
    \/ \E session \in SessionOutcomes, transport \in Transports :
           Attempt(session, transport)
    \/ Delay
    \/ Finish

SpecClient == InitClient /\ [][NextClient]_vars

\* the handler alone, its events being any client's
InitHandler ==
    /\ ClientIdle
    /\ HandlerQuiet
    /\ SideQuiet
    /\ storeUp \in BOOLEAN
    /\ connString \in BOOLEAN
    /\ rows \in {{}, SeedRows}

NextHandler ==
    \/ \E event \in Events : Invoke(event)
    \/ StoreDown
    \/ StoreUp
    \/ ColdStart

SpecHandler == InitHandler /\ [][NextHandler]_vars

\* POST /foods arriving at several instances, the store coming and going
NextCreates ==
    \/ \E i \in Instances : PostBegin(i)
    \/ \E i \in Instances : PostSelect(i)
    \/ \E i \in Instances : PostInsert(i)
    \/ StoreFails
    \/ StoreReturns

\* one instance for the whole of its life, requests to GET /foods
\* arriving for as long as it lives
ListEvent == Event("GET", <<FOODS>>, Undefined, Undefined)

\* one request for each route that uses the store
StoreEvents ==
    { ListEvent,
      Event("GET", <<FOODS, Seg("2")>>, Undefined, Undefined),
      Event("GET", <<FOODS, SEARCH>>, JChars(<<"a", "p", "p">>), Undefined),
      CreateEvent }

NextSameInstance ==
    \/ \E event \in StoreEvents : Invoke(event)
    \/ StoreDown
    \/ StoreUp

SpecSameInstance ==
    InitHandler /\ [][NextSameInstance]_vars /\ WF_vars(Invoke(ListEvent))

SpecCreates == InitHandler /\ [][NextCreates]_vars

\* the search-only handler alone
NextSearchOnly ==
    \/ \E event \in SearchOnlyEvents, credentials \in StepOutcomes,
          table \in StepOutcomes :
           InvokeSearchOnly(event, credentials, table)
    \/ SearchStoreFails
    \/ SearchStoreReturns

SpecSearchOnly == InitHandler /\ [][NextSearchOnly]_vars

\* createFood calls of one client against one instance of the handler
NextCreateCall ==
    \/ StartCreate
    \/ \E session \in SessionOutcomes, fate \in Fates : CreateAttempt(session, fate)
    \/ CreateDelay
    \/ CreateFinish

SpecCreateCall == InitHandler /\ [][NextCreateCall]_vars

\* the useEnhancedAuth hook of one mounted component
NextRefresh ==
    \/ TimerTick
    \/ \E e \in HubEvents : HubEvent(e)
    \/ CallRefreshSession
    \/ ClearError
    \/ UserChanges
    \/ TokenAges
    \/ \E s \in Slots, read \in SessionReads : ResumeCheck(s, read)
    \/ \E s \in Slots, forced \in ForceOutcomes : ResumeForce(s, forced)
    \/ \E s \in Slots, read \in SessionReads : ResumeNested(s, read)

SpecRefresh == InitClient /\ [][NextRefresh]_vars

\* AuthProvider with the components that call it
NextAuth ==
    \/ RunEffect
    \/ CallCheckAuthState
    \/ \E currentUser \in CurrentUsers : CheckReturns(currentUser)
    \/ \E thrown \in ThrownErrors : CheckThrows(thrown)
    \/ CallProviderRefresh
    \/ \E tokens \in BOOLEAN : RefreshReturns(tokens)
    \/ \E thrown \in ThrownErrors : RefreshThrows(thrown)
    \/ CallSignOut
    \/ SignOutReturns
    \/ \E thrown \in ThrownErrors : SignOutThrows(thrown)
    \/ CallClearError
    \/ \E e \in ProviderEvents, data \in ThrownErrors \cup {Undefined} :
          ProviderHubEvent(e, data)
    \/ SessionCheckTick
    \/ SessionCheckReturns
    \/ \E thrown \in ThrownErrors : SessionCheckThrows(thrown)

SpecAuth == InitClient /\ [][NextAuth]_vars

\* handleApiError alone, over every value an attempt can throw: the
\* statuses of non-2xx responses, fetch's rejections and json()'s
ThrowableErrors ==
    { HttpError(st) : st \in 300..599 }
        \cup FetchRejections
        \cup { JsonSyntaxError }

\* one attempt's catch block at the last retry: classify and surface
ClassifyThrown(e) ==
    /\ pc = "idle"
    /\ pc' = "done"
    /\ op' = "getFoods"
    /\ retryCount' = maxRetries
    /\ lastThrown' = e
    /\ attemptLog' = <<handleApiError(e)>>
    /\ outcome' = [kind |-> "thrown", error |-> handleApiError(e)]
    /\ UNCHANGED <<delays, lastSession, lastRequest, lastBody>>
    /\ UNCHANGED handlerVars
    /\ UNCHANGED sideVars

NextClassify ==
    \/ \E e \in ThrowableErrors : ClassifyThrown(e)
    \/ Finish

SpecClassify == InitClient /\ [][NextClassify]_vars

----------------------------------------------------------------------------
(* Properties of the client                                                *)

Failed(i) == attemptLog[i] # AttemptOk
LastAttempt == attemptLog[Len(attemptLog)]
AllAttemptsRetryable ==
    \A i \in DOMAIN attemptLog : Failed(i) /\ attemptLog[i].retryable

\* C1: when every attempt of a call fails with a retryable classification,
\* there are exactly 4 attempts (never a 5th), the delays waited are 1000,
\* 2000 and 4000 ms in that order, one before each retry and none before
\* the first attempt or after the last, and the call then throws the
\* classified error of the last attempt.
C1_RetryExhaustion ==
    /\ Len(attemptLog) <= 4
    /\ AllAttemptsRetryable =>
         /\ Len(delays) <= 3
         /\ \A i \in DOMAIN delays : delays[i] = <<1000, 2000, 4000>>[i]
         /\ Len(delays) = IF pc \in {"delay", "done"}
                          THEN Len(attemptLog) - 1
                          ELSE Len(attemptLog)
         /\ pc = "done" =>
              /\ Len(attemptLog) = 4
              /\ delays = <<1000, 2000, 4000>>
              /\ outcome = [kind |-> "thrown", error |-> attemptLog[4]]

C1_Witness ==
    /\ pc = "done"
    /\ Len(attemptLog) = 4
    /\ AllAttemptsRetryable
    /\ outcome.kind = "thrown"
    /\ outcome.error.code = "SERVICE_UNAVAILABLE"

\* C2: an attempt that fails with a non-retryable classification ends the
\* call at once, whatever the retry count: the classified error is thrown,
\* no delay follows it and no further attempt is made.
C2_NonRetryableSurfaces ==
    (attemptLog # <<>> /\ Failed(Len(attemptLog)) /\ ~LastAttempt.retryable) =>
        /\ pc = "done"
        /\ outcome = [kind |-> "thrown", error |-> LastAttempt]
        /\ Len(delays) = Len(attemptLog) - 1
        /\ retryCount = Len(attemptLog) - 1

C2_Witness ==
    /\ pc = "done"
    /\ retryCount = 2
    /\ Len(attemptLog) = 3
    /\ outcome.kind = "thrown"
    /\ outcome.error.code = "FORBIDDEN"
    /\ delays = <<1000, 2000>>

ClassifiedStatus ==
    pc = "done" /\ Has(lastThrown, "status")

C4_4xxClassification ==
    (ClassifiedStatus /\ lastThrown.status \in 400..499) =>
        /\ LastAttempt.statusCode = lastThrown.status
        /\ LastAttempt.code =
              CASE lastThrown.status = 401 -> "UNAUTHORIZED"
                [] lastThrown.status = 403 -> "FORBIDDEN"
                [] lastThrown.status = 429 -> "RATE_LIMITED"
                [] OTHER -> "HTTP_ERROR"
        /\ LastAttempt.retryable = (lastThrown.status = 429)

C4_Witness ==
    /\ ClassifiedStatus
    /\ lastThrown.status = 404
    /\ LastAttempt.code = "HTTP_ERROR"
    /\ ~LastAttempt.retryable

\* C5: every attempt whose fetch rejects without a response, whatever the
\* message of the rejection, is classified NETWORK_ERROR and retryable, and
\* is retried while retries remain.
C5_TransportFailureIsNetworkError ==
    (attemptLog # <<>> /\ lastThrown \in FetchRejections) =>
        /\ LastAttempt = NetworkError
        /\ pc = "delay" \/ (pc = "done" /\ Len(attemptLog) = 4)

\* C6: every error a call throws has a kind among the eight of the
\* taxonomy, a message and a boolean retryable flag.
C6_SurfacedKinds ==
    outcome.kind = "thrown" =>
        /\ outcome.error.code \in
              {"NETWORK_ERROR", "UNAUTHORIZED", "FORBIDDEN", "RATE_LIMITED",
               "SERVER_ERROR", "SERVICE_UNAVAILABLE", "HTTP_ERROR",
               "UNKNOWN_ERROR"}
        /\ Has(outcome.error, "message")
        /\ Has(outcome.error, "retryable")
        /\ outcome.error.retryable \in BOOLEAN

C6_Witness ==
    /\ outcome.kind = "thrown"
    /\ outcome.error.code = "UNKNOWN_ERROR"
    /\ lastSession.kind = "throws"
    /\ lastSession.error.name = "NotAuthorizedException"

C8_ListsAreSequences ==
    (pc = "done" /\ op \in {"getFoods", "searchFood"}
        /\ lastBody \notin {NoBody, NotJson}) =>
        /\ outcome.kind = "returned"
        /\ IsArray(outcome.value)
        /\ IsArray(OptData(lastBody)) => outcome.value = OptData(lastBody)

----------------------------------------------------------------------------
(* Properties of the handler                                               *)

IsListRequest == request.httpMethod = "GET" /\ EndsWithFoods(request.path)

\* the store as the latest invocation found it: unreachable when there is
\* no connection string, when the connection attempt fails, or when the
\* query on the cached client fails
StoreReachable ==
    IF seen.pg = "null" THEN connString /\ seen.up ELSE seen.alive

\* C9: GET /foods answers 200 with success true in every store state: with
\* source "fallback" and exactly the 10-item catalog when the store is
\* unreachable, and with source "database" and all rows of the table in
\* ascending id order when it is reachable.
C9_ListAllOrFallback ==
    IsListRequest =>
        /\ response.statusCode = 200
        /\ response.body.success = TRUE
        /\ IF StoreReachable
           THEN /\ response.body.source = "database"
                /\ Len(response.body.data) = Cardinality(rows)
                /\ {response.body.data[i] : i \in DOMAIN response.body.data} = rows
                /\ \A i, j \in DOMAIN response.body.data :
                      i < j => response.body.data[i].id < response.body.data[j].id
           ELSE /\ response.body.source = "fallback"
                /\ response.body.data = foodDatabase
                /\ Len(response.body.data) = 10

C9_Witness ==
    /\ IsListRequest
    /\ seen.pg = "client"
    /\ ~seen.alive
    /\ response.body.source = "fallback"
    /\ Cardinality(rows) >= 3

\* C10, its last clause: a well-routed request with all fields present is
\* never answered 4xx or 5xx, in any store state. Here: POST /foods whose
\* body is a JSON object with a non-empty name and a number of calories
\* that is at least 0.
C10_WellFormedCreateSucceeds ==
    (/\ request.httpMethod = "POST"
     /\ EndsWithFoods(request.path)
     /\ request.body.t = "text"
     /\ request.body.json.t = "object"
     /\ request.body.json.name.t = "chars"
     /\ request.body.json.name.s # <<>>
     /\ request.body.json.calories.t = "number"
     /\ request.body.json.calories.n >= 0) =>
        response.statusCode \in {200, 201}

Sourced == Has(response, "body") /\ Has(response.body, "source")

\* C11: a response tagged source "fallback" is produced only when the store
\* is unreachable; while the store is reachable and its query succeeds, the
\* answer is the store's and is tagged source "database".
C11_FallbackOnlyWhenUnreachable ==
    (Sourced /\ response.body.source = "fallback") => ~StoreReachable

IsGetByIdRequest ==
    /\ request.httpMethod = "GET"
    /\ ~EndsWithFoods(request.path)
    /\ IncludesFoodsSlash(request.path)
    /\ ~IncludesSearch(request.path)

\* the id segment is a decimal numeral
IsNumeral(str) == str # <<>> /\ \A i \in DOMAIN str : str[i] \in Digits

CatalogIds == {foodDatabase[i].id : i \in DOMAIN foodDatabase}

\* C12: GET /foods/{id} answers 404 with success false exactly when the id
\* is in neither the store's rows nor the fallback catalog, which includes
\* every id segment that is not a number; otherwise it answers 200 with the
\* one record whose id equals the requested id.
C12_GetByIdFoundOrNotFound ==
    IsGetByIdRequest =>
        LET segment == LastSegment(request.path)
            known == /\ IsNumeral(segment)
                     /\ ParseDigits(segment, 1, 0)
                            \in {r.id : r \in rows} \cup CatalogIds
        IN  IF known
            THEN /\ response.statusCode = 200
                 /\ response.body.success = TRUE
                 /\ response.body.data.id = ParseDigits(segment, 1, 0)
            ELSE /\ response.statusCode = 404
                 /\ response.body.success = FALSE

IsSearchRequest ==
    /\ request.httpMethod = "GET"
    /\ ~EndsWithFoods(request.path)
    /\ IncludesSearch(request.path)

NameMissingOrEmpty == request.name.t = "undefined" \/ request.name.s = <<>>

\* C13: GET /foods/search whose name parameter is missing or empty is
\* answered 400 with success false in every store state, and the invocation
\* neither connects to the store nor sends it a statement.
C13_SearchWithoutNameIs400 ==
    (IsSearchRequest /\ NameMissingOrEmpty) =>
        /\ response.statusCode = 400
        /\ response.body.success = FALSE
        /\ connects = 0
        /\ queries = 0
        /\ rows = seen.rows

C13_Witness ==
    /\ IsSearchRequest
    /\ request.name.t = "chars"
    /\ request.name.s = <<>>
    /\ StoreReachable
    /\ seen.rows # {}
    /\ response.statusCode = 400

\* the records of a table whose name contains the term, case-insensitively,
\* in ascending id order
NameMatches(table, term) ==
    MapRows(OrderById({r \in table : Contains(ToLower(r.name), ToLower(term))}))

\* C14: for every non-empty term, GET /foods/search answers exactly the
\* records whose name contains the term case-insensitively, in ascending id
\* order, over the store's rows when the store is reachable and over the
\* catalog otherwise; the LIKE query gives what the in-process filter gives
\* on the same rows, also for a term that contains % or _.
C14_SearchIsSubstringMatch ==
    (IsSearchRequest /\ ~NameMissingOrEmpty) =>
        /\ response.statusCode = 200
        /\ response.body.data =
              IF StoreReachable
              THEN NameMatches(rows, request.name.s)
              ELSE NameMatches({foodDatabase[i] : i \in DOMAIN foodDatabase},
                               request.name.s)

IsCreateRequest == request.httpMethod = "POST" /\ EndsWithFoods(request.path)

\* the request body is the text of a JSON object
HasObjectBody == request.body.t = "text" /\ request.body.json.t = "object"

\* C15: POST /foods with a JSON object is answered 400 exactly when name or
\* calories is absent (an empty name counting as absent), and every body
\* with a non-empty name and integer calories of at least 0, 0 included, is
\* answered 201 with that name and those calories.
C15_CreateRejectsOnlyAbsentFields ==
    (IsCreateRequest /\ HasObjectBody) =>
        LET name == request.body.json.name
            calories == request.body.json.calories
            nameAbsent == name.t = "undefined" \/ name.s = <<>>
            caloriesAbsent == calories.t = "undefined"
        IN  /\ response.statusCode = 400 <=> (nameAbsent \/ caloriesAbsent)
            /\ (~nameAbsent /\ ~caloriesAbsent /\ calories.n >= 0) =>
                  /\ response.statusCode = 201
                  /\ response.body.data.name = name.s
                  /\ response.body.data.calories = calories.n

\* the latest invocation was a POST /foods answered 201 from the store
CreatedInStore ==
    /\ IsCreateRequest
    /\ response.statusCode = 201
    /\ response.body.source = "database"

\* the store would answer the next invocation of this instance
StoreStillReachable ==
    IF pgClient = "null" THEN connString /\ storeUp ELSE connAlive

\* the event is GET /foods/{id} for this id
GetsId(event, id) ==
    /\ event.httpMethod = "GET"
    /\ ~EndsWithFoods(event.path)
    /\ IncludesFoodsSlash(event.path)
    /\ IsNumeral(LastSegment(event.path))
    /\ ParseDigits(LastSegment(event.path), 1, 0) = id

\* C16: a POST /foods answered 201 with source "database" returns the id
\* max(id) + 1 of the table it found (1 on an empty table); the invocation
\* that follows it at once, the store still reachable, answers GET /foods/i
\* with 200 and the same name and calories, and GET /foods with a list that
\* holds the record.
C16_CreateThenRead ==
    [][CreatedInStore =>
          LET created == response.body.data IN
          /\ created.id = MaxOf({r.id : r \in seen.rows}) + 1
          /\ (StoreStillReachable /\ GetsId(request', created.id)) =>
                /\ response'.statusCode = 200
                /\ response'.body.data.id = created.id
                /\ response'.body.data.name = created.name
                /\ response'.body.data.calories = created.calories
          /\ (StoreStillReachable /\ request'.httpMethod = "GET"
                /\ EndsWithFoods(request'.path)) =>
                /\ response'.statusCode = 200
                /\ \E i \in DOMAIN response'.body.data :
                      response'.body.data[i] = created]_vars

\* GET /foods/4 answers the record a POST stored under id 4
C16_Witness ==
    /\ GetsId(request, 4)
    /\ response.statusCode = 200
    /\ response.body.source = "database"
    /\ response.body.data.name = MANGO
    /\ response.body.data.calories = 60
    /\ seen.pg = "client"
    /\ connects = 0

----------------------------------------------------------------------------
(* Properties of POST /foods over several invocations                      *)

\* C17: any two POST /foods that were both answered 201 returned records
\* with different ids, whether the record came from the store or was made
\* up on the fallback path.
C17_CreatedIdsDiffer ==
    \A a, b \in DOMAIN issued : a # b => issued[a].id # issued[b].id

\* C18: when instances run POST /foods concurrently against the same store,
\* each with its SELECT of max(id) + 1 and its INSERT as two statements, no
\* two stored rows have the same id, and no id returned in a 201 response
\* with source "database" is returned by two responses.
C18_NoDuplicateStoredIds ==
    /\ \A r, q \in rows : r.id = q.id => r = q
    /\ \A a, b \in DOMAIN issued :
          (a # b /\ issued[a].source = "database"
                 /\ issued[b].source = "database") =>
              issued[a].id # issued[b].id

\* two instances selected the same next_id, one has inserted its row and
\* been answered from the store, the other's INSERT is still to come
C18_Witness ==
    \E i, j \in Instances :
        /\ i # j
        /\ inst[i].pc = "insert"
        /\ inst[i].alive
        /\ inst[j].pc = "idle"
        /\ inst[j].nextId = inst[i].nextId
        /\ \E r \in rows : r.id = inst[i].nextId
        /\ issued # <<>>
        /\ issued[Len(issued)] = [by |-> j, id |-> inst[i].nextId,
                                  source |-> "database", live |-> TRUE]

----------------------------------------------------------------------------
(* Properties of every response                                            *)

HasResponded == response.statusCode # 0

\* C19: every response of the handler, whatever the method, path, body and
\* store state (200, 201, 400, 404, 500 and the OPTIONS preflight), carries
\* Access-Control-Allow-Origin: *, Access-Control-Allow-Headers,
\* Access-Control-Allow-Methods and Content-Type: application/json.
C19_CorsOnEveryResponse ==
    HasResponded =>
        /\ Has(response.headers, "AccessControlAllowOrigin")
        /\ response.headers.AccessControlAllowOrigin = "*"
        /\ Has(response.headers, "AccessControlAllowHeaders")
        /\ Has(response.headers, "AccessControlAllowMethods")
        /\ Has(response.headers, "ContentType")
        /\ response.headers.ContentType = "application/json"

\* the catch block's 500 carries them too
C19_Witness ==
    /\ response.statusCode = 500
    /\ response.headers = CorsHeaders
    /\ request.body = NotJson

\* C20: every response of the handler to a request other than the
\* preflight carries a source whose value is "database" or "fallback", the
\* error responses (400, 404, 500) included.
C20_SourceOnEveryResponse ==
    (HasResponded /\ request.httpMethod # "OPTIONS") =>
        /\ Has(response.body, "source")
        /\ response.body.source \in {"database", "fallback"}

----------------------------------------------------------------------------
(* Properties of routing and of the catch block                            *)

\* the request is one of the five routes: the preflight, GET on the
\* collection, GET by id, GET search, POST on the collection
MatchesRoute ==
    \/ request.httpMethod = "OPTIONS"
    \/ IsListRequest
    \/ IsGetByIdRequest
    \/ IsSearchRequest
    \/ IsCreateRequest

\* C21: a request that matches none of the five routes, such as PUT or
\* DELETE on /foods/{id}, is answered 404 with success false and the list
\* of the supported routes, and the store is left as it was: no connection
\* attempt, no statement, the same rows.
C21_UnknownRouteIs404 ==
    (HasResponded /\ ~MatchesRoute) =>
        /\ response.statusCode = 404
        /\ response.body.success = FALSE
        /\ Has(response.body, "availableRoutes")
        /\ Len(response.body.availableRoutes) = 4
        /\ connects = 0
        /\ queries = 0
        /\ rows = seen.rows

C21_Witness ==
    /\ request.httpMethod \in {"PUT", "DELETE"}
    /\ request.path = <<FOODS, Seg("2")>>
    /\ StoreReachable
    /\ seen.rows # {}
    /\ response.statusCode = 404

\* handling the request raises an exception: JSON.parse on a body that is
\* not JSON, or destructuring the value null
Raises ==
    /\ IsCreateRequest
    /\ \/ ParseBody(request.body).kind = "throws"
       \/ Destructure(ParseBody(request.body).value).kind = "throws"

\* C22: every invocation completes with a response; when handling the
\* request raises an exception, such as a POST body that is not JSON, the
\* response is 500 with success false and the error 'Internal server error'.
C22_ExceptionsBecome500 ==
    request # NoEvent =>
        /\ response.statusCode \in {200, 201, 400, 404, 500}
        /\ Raises =>
              /\ response.statusCode = 500
              /\ response.body.success = FALSE
              /\ response.body.error = "Internal server error"

C22_Witness ==
    /\ IsCreateRequest
    /\ request.body = NotJson
    /\ response.statusCode = 500
    /\ response.body.error = "Internal server error"
    /\ response.body.details = JsonSyntaxError.message

----------------------------------------------------------------------------
(* Properties of the cached connection                                     *)

\* the latest invocation called one of the database functions
StoreUsing ==
    \/ IsListRequest
    \/ IsGetByIdRequest
    \/ IsSearchRequest /\ ~NameMissingOrEmpty
    \/ IsCreateRequest /\ response.statusCode = 201

\* C23: the cached handle of the main handler. An invocation that finds no
\* handle and has a connection string makes one connection attempt; when
\* the attempt fails the handle is null again, and the next store-using
\* invocation of the instance attempts again; when it succeeds the handle
\* is cached, and an invocation that finds a handle opens no connection.
C23_ConnectionStateMachine ==
    [][/\ (StoreUsing' /\ seen'.pg = "null" /\ connString /\ ~seen'.up) =>
              (connects' = 1 /\ pgClient' = "null")
       /\ (StoreUsing' /\ seen'.pg = "client") => connects' = 0
       /\ (pgClient = "null" /\ pgClient' = "client") =>
              (connects' = 1 /\ seen'.pg = "null" /\ seen'.up /\ connAlive')
       /\ (pgClient = "null" /\ connString /\ request' # request /\ StoreUsing') =>
              /\ connects' = 1
              /\ pgClient' = IF storeUp THEN "client" ELSE "null"]_vars

\* a connection attempt has failed, the handle is null, and the store is
\* up for the next invocation
C23_Witness ==
    /\ StoreUsing
    /\ seen.pg = "null"
    /\ ~seen.up
    /\ connString
    /\ connects = 1
    /\ pgClient = "null"
    /\ storeUp

----------------------------------------------------------------------------
(* Properties of the search-only handler                                   *)

\* C24: in the search-only handler, when the invocation before made a
\* connection attempt that failed (the credentials fetch, the connect or
\* the table creation threw), a search that finds the store reachable, the
\* credentials fetch and the table creation working is answered 200.
C24_SearchOnlyRecovers ==
    (/\ searchRequest.httpMethod = "GET"
     /\ IncludesFoodsSearch(searchRequest.path)
     /\ searchSeen.afterFailure
     /\ searchSeen.up
     /\ searchSeen.credentials = "ok"
     /\ searchSeen.table = "ok") =>
        searchReply.statusCode = 200

----------------------------------------------------------------------------
(* Properties of createFood end to end                                     *)

\* C25: one createFood call inserts at most one record into the store,
\* whatever the outcomes of its attempts: also when an attempt's insert
\* succeeds on the server and the client sees a retryable failure.
C25_CreateInsertsAtMostOnce ==
    op = "createFood" => Cardinality(rows \ rowsAtCall) <= 1

\* C26: no lost create while the store is reachable. Among concurrent
\* POST /foods invocations, every one that is answered 201 and whose INSERT
\* was sent on a live connection has its record in the store under the id
\* it was answered; a create whose INSERT is refused on a key conflict is
\* not answered 201.
C26_NoLostCreate ==
    \A a \in DOMAIN issued :
        issued[a].live =>
            \E r \in rows : /\ r.id = issued[a].id
                            /\ r.name = PostedName
                            /\ r.calories = PostedCalories

\* the cached client's connection is broken
StaleHandle == pgClient = "client" /\ ~connAlive

\* C27: when the cached handle's connection has broken and the store is
\* reachable from then on, some later request of the same instance is
\* answered with source "database" over a connection that works again.
C27_RecoversFromBrokenHandle ==
    []((StaleHandle /\ []storeUp) =>
           <>(connAlive /\ Sourced /\ response.body.source = "database"))

----------------------------------------------------------------------------
(* Properties of executeWithRetry as a whole                               *)

\* C28: executeWithRetry stops at the first attempt that succeeds or fails
\* with a non-retryable classification. Every attempt before the last one
\* made is a retryable failure; once an attempt succeeds or fails for good
\* the call is done, with that attempt's result returned or that attempt's
\* classified error thrown, one delay before each attempt but the first
\* and none after the last; and there are never more than 4 attempts, the
\* call being done after the 4th.
C28_StopsAtFirstFinalAttempt ==
    /\ Len(attemptLog) <= 4
    /\ Len(attemptLog) = 4 => pc = "done"
    /\ \A i \in DOMAIN attemptLog :
          i < Len(attemptLog) => (Failed(i) /\ attemptLog[i].retryable)
    /\ (attemptLog # <<>> /\ (~Failed(Len(attemptLog)) \/ ~LastAttempt.retryable)) =>
          pc = "done"
    /\ pc = "done" =>
          /\ Len(delays) = Len(attemptLog) - 1
          /\ retryCount = Len(attemptLog) - 1
          /\ outcome = IF Failed(Len(attemptLog))
                       THEN [kind |-> "thrown", error |-> LastAttempt]
                       ELSE [kind |-> "returned", value |-> Unwrap(op, lastBody)]

\* two retryable failures, then a success that ends the call
C28_Witness ==
    /\ pc = "done"
    /\ Len(attemptLog) = 3
    /\ Failed(1) /\ attemptLog[1].retryable
    /\ Failed(2) /\ attemptLog[2].retryable
    /\ LastAttempt = AttemptOk
    /\ outcome.kind = "returned"
    /\ delays = <<1000, 2000>>

----------------------------------------------------------------------------
(* Properties of useEnhancedAuth                                           *)

\* the refreshSession calls whose forced refresh is in progress
ForcedRefreshes == {s \in Slots : tasks[s].kind = "force"}

\* C29: at most one forced session refresh is in progress at any time: a
\* refreshSession requested while another is running is skipped by the
\* isRefreshing guard; and isRefreshing is false when no refreshSession is
\* running.
C29_OneRefreshAtATime ==
    /\ Cardinality(ForcedRefreshes) <= 1
    /\ (\A s \in Slots : tasks[s].kind \notin {"force", "nested"}) => ~isRefreshing

----------------------------------------------------------------------------
(* Properties of AuthProvider and ProtectedRoute                           *)

\* C30: whatever auth events and operations AuthProvider has handled,
\* ProtectedRoute with requireAuth renders its children only when isLoading
\* is false, sessionExpired is false, error is null and user is not null;
\* and whenever sessionExpired is true, user is null.
C30_ChildrenOnlyWhenSignedIn ==
    /\ \A fallback \in BOOLEAN :
          ProtectedRoute(TRUE, fallback) = "children" =>
              /\ auth.isLoading = FALSE
              /\ auth.sessionExpired = FALSE
              /\ auth.error = Null
              /\ auth.user # Null
    /\ auth.sessionExpired => auth.user = Null

\* the children are shown to a signed-in user while a call is in flight
C30_Witness ==
    /\ ProtectedRoute(TRUE, FALSE) = "children"
    /\ auth.user = SignedInUser
    /\ PendingCalls > 0

====
